---- MODULE Spec2Model ----
(***************************************************************************)
(* Model of the RAG pipeline of rag-cursor: RAGPipeline (add_documents,    *)
(* query, _init_chroma), the module-level singleton get_rag_pipeline, and  *)
(* the ChromaDB collection and Google Generative AI calls they drive.      *)
(* Two variants of the pipeline exist in the repository (src/api and       *)
(* src/cleaned); the variable `variant` says which one a behaviour runs.   *)
(***************************************************************************)
EXTENDS Integers, Sequences, FiniteSets, TLC

VARIABLES
    variant,      \* "api" (src/api/rag_pipeline.py) or "cleaned" (src/cleaned/rag_pipeline.py)
    api_key,      \* is GOOGLE_API_KEY set in the environment of the process
    exists,       \* does the collection exist in the vector store
    collection,   \* the collection's contents: id -> [document, embedding, metadata]
    instance,     \* _rag_pipeline_instance: None (0) or the number of the construction that made it
    persist_directory, \* self.persist_directory of the singleton: where its vector store is opened
    constructed,  \* number of RAGPipeline objects constructed so far
    opened,       \* number of get-or-create accesses of the collection (_init_chroma runs)
    last,         \* the last completed call: its arguments, external calls, outcome
    pc,           \* per request thread: position inside get_rag_pipeline
    ret,          \* per request thread: the instance get_rag_pipeline returned (0: none yet)
    adder,        \* per concurrent add_documents caller: its batch and its position in the call
    inflight,     \* a query call in progress: its position and the external call it waits for
    rag_initialized, \* index.py: the module flag rag_initialized
    chat_histories,  \* index.py: session id -> list of history entries
    reply,        \* the HTTP reply of the last chat request
    handler       \* per request thread of the chat server: its request and its position in chat_endpoint

\* the state of the step-wise calls and of the chat server
stepVars == <<adder, inflight>>

chatVars == <<rag_initialized, chat_histories, reply, handler>>

vars == <<variant, api_key, exists, collection, instance, persist_directory, constructed, opened,
          last, pc, ret, stepVars, chatVars>>

----------------------------------------------------------------------------
(* Bounds of the model *)

\* longest documents / ids / metadatas list passed to add_documents
MaxBatch == 2
\* largest top_k passed to query
MaxTopK == 2
\* number of concurrent request threads
NumThreads == 2
\* requests answered one at a time before and between the concurrent ones
MaxEarlierRequests == 11
\* number of concurrent add_documents callers
NumCallers == 2
\* number of entries of DOCUMENTS in the persistent_add_docs scripts
NumScriptDocs == 2
\* longest session history a further chat request is sent to
MaxHistory == 3
\* the same in the runs that follow sessions past the history limit of the server
MaxLongHistory == 22

----------------------------------------------------------------------------
(* Values *)

None == 0

\* Python's None as a metadata value (Chroma returns None for a document stored without metadata)
NoneMeta == [none |-> "None"]

Variants == {"api", "cleaned"}

\* persistence locations: the default of get_rag_pipeline, and another directory
DefaultPersistDir == "./chromadb_data"

Locations == {DefaultPersistDir, "/data/chroma"}

\* no location: persist_directory=None, or no pipeline constructed yet
NoDirectory == "<None>"

\* ids and texts callers use
Ids == {"doc_0_faq", "doc_1_policy"}
Texts == {"support hours", "refund\npolicy"}

\* a whitespace-only text, and the texts callers ask about
BlankText == "   "

QueryTexts == Texts \cup {BlankText}

\* metadata dicts callers use: one with a category, one without
DictMetas == {[category |-> "faq"], [source |-> "file"]}

\* _init_with_sample_data: sample_docs, sample_ids, sample_metadata
sample_docs ==
    << "Nexobotics helps businesses improve customer service with AI.",
       "Customer satisfaction is critical for business success.",
       "AI chatbots can handle routine customer inquiries efficiently." >>

sample_ids == << "sample_0", "sample_1", "sample_2" >>

sample_metadata == [i \in 1..Len(sample_docs) |-> [source |-> "initial_data"]]

\* persistent_add_docs.py: DOCUMENTS, doc_ids and metadata. src/api goes with
\* the pipeline of src/api, src/deployment with the pipeline of src/cleaned
\* (the same collection name and directory).
DOCUMENTS == [i \in 1..NumScriptDocs |-> "DOCUMENTS[" \o ToString(i - 1) \o "]"]

doc_ids(v) ==
    [i \in 1..NumScriptDocs |-> (IF v = "api" THEN "csbp_" ELSE "doc_") \o ToString(i)]

ScriptMetadata(v) ==
    [i \in 1..NumScriptDocs |->
        IF v = "api"
        THEN [source |-> "customer_service_knowledge", category |-> "best_practices"]
        ELSE [source |-> "nexobotics_knowledge_base", category |-> "company_info",
              doc_id |-> doc_ids(v)[i]]]

test_query(v) ==
    IF v = "api" THEN "What are the best practices for customer service?"
    ELSE "What products does Nexobotics offer?"

\* a fixed order of all ids: the store's stable order for equal distances
IdOrder == << "doc_0_faq", "doc_1_policy", "sample_0", "sample_1", "sample_2" >>
           \o doc_ids("api") \o doc_ids("cleaned")

IdRank(id) == CHOOSE i \in 1..Len(IdOrder) : IdOrder[i] = id

----------------------------------------------------------------------------
(* Outcomes of calls: a call either returns a value or raises an exception *)

Returned(v) == [exc |-> "none", value |-> v]

Raised(e) == [exc |-> e, value |-> None]

----------------------------------------------------------------------------
(* The embedding service: genai.embed_content(model, content, task_type).  *)
(* Embeddings are one-dimensional; the two task types give different       *)
(* vectors for the same text.                                              *)

TextIndex(text) ==
    CASE text = BlankText -> 0
      [] text = "support hours" -> 1
      [] text = "refund\npolicy" -> 4
      [] text = sample_docs[1] -> 6
      [] text = sample_docs[2] -> 7
      [] text = sample_docs[3] -> 8
      [] text \in {test_query("api"), test_query("cleaned")} -> 9
      [] OTHER -> 9 + (CHOOSE i \in 1..NumScriptDocs : DOCUMENTS[i] = text)

embed_content(content, task_type, ok) ==
    IF ~ok THEN Raised("EmbeddingFailure")
    ELSE IF task_type = "retrieval_document"
         THEN Returned([embedding |-> 2 * TextIndex(content)])
         ELSE Returned([embedding |-> 2 * TextIndex(content) + 1])

----------------------------------------------------------------------------
(* Python values *)

\* an Optional[List] argument: None, or a list
PyNone == [isNone |-> TRUE, list |-> <<>>]

PyList(s) == [isNone |-> FALSE, list |-> s]

\* truth value of an Optional[List]: None and the empty list are false
Truthy(x) == ~x.isNone /\ Len(x.list) > 0

Range(s) == {s[i] : i \in 1..Len(s)}

NoDuplicates(s) == \A i, j \in 1..Len(s) : s[i] = s[j] => i = j

----------------------------------------------------------------------------
(* The vector store: a ChromaDB collection *)

\* collection.add(documents, embeddings, ids, metadatas): insert-only.
\* An empty or repeated id list and lists of unequal length are rejected.
\* An id already stored is never overwritten: the store either skips it
\* (onExisting = "skip") or rejects the whole call (onExisting = "raise"),
\* depending on the ChromaDB release.
collection_add(coll, documents, embeddings, ids, metadatas, onExisting) ==
    IF Len(ids) = 0 THEN Raised("ValueError")
    ELSE IF ~NoDuplicates(ids) THEN Raised("DuplicateIDError")
    ELSE IF Len(documents) # Len(ids) \/ Len(embeddings) # Len(ids) THEN Raised("ValueError")
    ELSE IF ~metadatas.isNone /\ Len(metadatas.list) # Len(ids) THEN Raised("ValueError")
    ELSE IF onExisting = "raise" /\ Range(ids) \cap DOMAIN coll # {} THEN Raised("IDAlreadyExistsError")
    ELSE LET fresh == Range(ids) \ DOMAIN coll
             pos(id) == CHOOSE i \in 1..Len(ids) : ids[i] = id
             entry(id) == [document |-> documents[pos(id)],
                           embedding |-> embeddings[pos(id)],
                           metadata |-> IF metadatas.isNone THEN NoneMeta
                                        ELSE metadatas.list[pos(id)]]
         IN Returned([id \in DOMAIN coll \cup fresh |->
                         IF id \in fresh THEN entry(id) ELSE coll[id]])

\* squared L2 distance of one-dimensional embeddings
Distance(a, b) == (a - b) * (a - b)

\* is id a nearer than id b for query embedding q (ties: the store's stable order)
Nearer(coll, q, a, b) ==
    LET da == Distance(coll[a].embedding, q)
        db == Distance(coll[b].embedding, q)
    IN da < db \/ (da = db /\ IdRank(a) < IdRank(b))

RECURSIVE NearestFirst(_, _, _, _)
\* the n nearest ids of `among`, nearest first
NearestFirst(coll, q, among, n) ==
    IF n = 0 \/ among = {} THEN <<>>
    ELSE LET best == CHOOSE a \in among : \A b \in among \ {a} : Nearer(coll, q, a, b)
         IN <<best>> \o NearestFirst(coll, q, among \ {best}, n - 1)

\* collection.query(query_embeddings=[q], n_results, include=[documents, metadatas, distances])
collection_query(coll, q, n_results, ok) ==
    IF ~ok THEN Raised("StoreFailure")
    ELSE LET hit == NearestFirst(coll, q, DOMAIN coll, n_results)
         IN Returned([documents |-> << [i \in 1..Len(hit) |-> coll[hit[i]].document] >>,
                      metadatas |-> << [i \in 1..Len(hit) |-> coll[hit[i]].metadata] >>,
                      distances |-> << [i \in 1..Len(hit) |-> Distance(coll[hit[i]].embedding, q)] >>])

----------------------------------------------------------------------------
(* RAGPipeline.add_documents *)

\* the name an embedding call has in the list of external calls of an operation
EmbedCall(task_type) ==
    IF task_type = "retrieval_document" THEN "embed_content:retrieval_document"
    ELSE "embed_content:retrieval_query"

\* task_type of the embedding calls of add_documents and _init_with_sample_data
DocumentTaskType == "retrieval_document"

RECURSIVE EmbedDocuments(_, _, _)
\* the embedding loop of add_documents over documents[i..]: the failAt-th call raises
EmbedDocuments(documents, i, failAt) ==
    IF i > Len(documents) THEN [exc |-> "none", value |-> <<>>, calls |-> <<>>]
    ELSE LET r == embed_content(documents[i], DocumentTaskType, i # failAt)
             call == <<EmbedCall(DocumentTaskType)>>
         IN IF r.exc # "none" THEN [exc |-> r.exc, value |-> <<>>, calls |-> call]
            ELSE LET rest == EmbedDocuments(documents, i + 1, failAt)
                 IN [exc |-> rest.exc,
                     value |-> <<r.value.embedding>> \o rest.value,
                     calls |-> call \o rest.calls]

\* fault variant of LengthMismatch: only documents and ids are compared
LengthMismatch_IdsOnly(documents, ids, metadatas) == Len(documents) # Len(ids)

\* the two length checks that open add_documents: does one of them raise ValueError
LengthMismatch(documents, ids, metadatas) ==
    \/ Len(documents) # Len(ids)
    \/ Truthy(metadatas) /\ Len(metadatas.list) # Len(documents)

\* fault variant of PrintAndRaise: the exception is printed and not raised again
PrintAndRaise_Swallow(r) ==
    [exc |-> "none", coll |-> r.coll, calls |-> r.calls, caught |-> r.exc]

\* `except Exception as e: print(...); raise`: the exception the try raised
\* (caught) is the exception that leaves add_documents (exc)
PrintAndRaise(r) ==
    [exc |-> r.exc, coll |-> r.coll, calls |-> r.calls, caught |-> r.exc]

RECURSIVE AddOneByOne(_, _, _, _, _, _, _)
\* embed and store document i, then the rest: what is stored stays when a later step raises
AddOneByOne(coll, documents, ids, metadatas, i, failAt, onExisting) ==
    IF i > Len(documents) THEN [exc |-> "none", coll |-> coll, calls |-> <<>>]
    ELSE LET e == embed_content(documents[i], "retrieval_document", i # failAt)
             c1 == <<"embed_content:retrieval_document">>
         IN IF e.exc # "none" THEN [exc |-> e.exc, coll |-> coll, calls |-> c1]
            ELSE LET w == collection_add(coll, <<documents[i]>>, <<e.value.embedding>>,
                                         <<ids[i]>>,
                                         IF metadatas.isNone \/ Len(metadatas.list) < i
                                         THEN PyNone ELSE PyList(<<metadatas.list[i]>>),
                                         onExisting)
                     c2 == c1 \o <<"collection.add">>
                 IN IF w.exc # "none" THEN [exc |-> w.exc, coll |-> coll, calls |-> c2]
                    ELSE LET rest == AddOneByOne(w.value, documents, ids, metadatas, i + 1,
                                                 failAt, onExisting)
                         IN [rest EXCEPT !.calls = c2 \o rest.calls]

\* fault variant of add_documents: each document is written as soon as it is embedded
add_documents_Incremental(coll, documents, ids, metadatas, failAt, onExisting) ==
    PrintAndRaise(IF LengthMismatch(documents, ids, metadatas)
                  THEN [exc |-> "ValueError", coll |-> coll, calls |-> <<>>]
                  ELSE AddOneByOne(coll, documents, ids, metadatas, 1, failAt, onExisting))

\* the statements inside the try of add_documents.
\* Result: the exception raised (or "none"), the collection afterwards, the external calls made.
AddDocumentsTry(coll, documents, ids, metadatas, failAt, onExisting) ==
    IF LengthMismatch(documents, ids, metadatas)
    THEN [exc |-> "ValueError", coll |-> coll, calls |-> <<>>]
    ELSE LET emb == EmbedDocuments(documents, 1, failAt)
         IN IF emb.exc # "none"
            THEN [exc |-> emb.exc, coll |-> coll, calls |-> emb.calls]
            ELSE LET w == collection_add(coll, documents, emb.value, ids, metadatas, onExisting)
                     calls == emb.calls \o <<"collection.add">>
                 IN IF w.exc # "none"
                    THEN [exc |-> w.exc, coll |-> coll, calls |-> calls]
                    ELSE [exc |-> "none", coll |-> w.value, calls |-> calls]

\* RAGPipeline.add_documents: the try, and the except clause around it
add_documents(coll, documents, ids, metadatas, failAt, onExisting) ==
    PrintAndRaise(AddDocumentsTry(coll, documents, ids, metadatas, failAt, onExisting))

----------------------------------------------------------------------------
(* RAGPipeline.query *)

\* the fixed replies of query, by variant
NoInformationResponse(v) ==
    IF v = "api"
    THEN "I don't have specific information about that in my knowledge base. Would you like me to connect you with a customer service representative who can help?"
    ELSE "I don't have specific information about that in my knowledge base. Is there something else I can help with, or would you like me to connect you with a representative?"

ApologyResponse(v) ==
    IF v = "api"
    THEN "I apologize, but I'm having trouble accessing that information right now. Is there something else I can help you with?"
    ELSE "I'm experiencing a brief technical difficulty retrieving that information. Is there something else I can help you with in the meantime?"

TechnicalDifficultiesResponse(v) ==
    IF v = "api"
    THEN "I'm having technical difficulties at the moment. Please try again in a moment or reach out to our support team if this persists."
    ELSE "I apologize for the inconvenience, but I'm having trouble accessing our knowledge base right now. Please try again shortly or contact our support team for immediate assistance."

\* response.text of a successful generation call
GeneratedText == "<generated answer>"

\* str.replace("\n", " ") on the texts of the model
OneLine(text) == IF text = "refund\npolicy" THEN "refund policy" ELSE text

\* str.upper() on the category values of the model
Upper(c) ==
    CASE c = "faq" -> "FAQ"
      [] c = "best_practices" -> "BEST_PRACTICES"
      [] c = "company_info" -> "COMPANY_INFO"
      [] c = "general information" -> "GENERAL INFORMATION"

\* the result dict of query; the cleaned variant adds the key "metadatas"
ResultDict(v, response, documents, distances, metadatas) ==
    IF v = "api"
    THEN [response |-> response, documents |-> documents, distances |-> distances]
    ELSE [response |-> response, documents |-> documents, distances |-> distances,
          metadatas |-> metadatas]

\* src/api: the prompt built inline in query: the question on one line, then
\* "PASSAGE i: <passage on one line>" per retrieved document
InlinePrompt(query_text, retrieved_documents) ==
    Returned([question |-> OneLine(query_text),
              passages |-> [i \in 1..Len(retrieved_documents) |->
                              [label |-> "PASSAGE", n |-> i,
                               text |-> OneLine(retrieved_documents[i])]]])

\* metadata.get("category", "general information"); None has no method get
MetadataCategory(metadata) ==
    IF metadata = NoneMeta THEN Raised("AttributeError")
    ELSE IF "category" \in DOMAIN metadata THEN Returned(metadata.category)
    ELSE Returned("general information")

\* src/cleaned: _build_customer_service_prompt(query, documents, metadatas):
\* one "[CATEGORY] doc" entry per zip(documents, metadatas) pair
_build_customer_service_prompt(query, documents, metadatas) ==
    LET n == IF Len(documents) < Len(metadatas) THEN Len(documents) ELSE Len(metadatas)
    IN IF \E i \in 1..n : MetadataCategory(metadatas[i]).exc # "none"
       THEN Raised("AttributeError")
       ELSE Returned([question |-> query,
                      passages |-> [i \in 1..n |->
                                      [label |-> Upper(MetadataCategory(metadatas[i]).value),
                                       n |-> i, text |-> documents[i]]]])

BuildPrompt(v, query_text, documents, metadatas) ==
    IF v = "api" THEN InlinePrompt(query_text, documents)
    ELSE _build_customer_service_prompt(OneLine(query_text), documents, metadatas)

\* model.generate_content(prompt, generation_config) and response.text
generate_content(prompt, ok) ==
    IF ok THEN Returned(GeneratedText) ELSE Raised("GenerationFailure")

\* fault variant of GenerateOrApologize: no inner try, a generation failure is raised
GenerateOrApologize_NoTry(v, prompt, genOk) == generate_content(prompt, genOk)

\* the inner try/except around the generation call: any failure becomes the apology
GenerateOrApologize(v, prompt, genOk) ==
    LET g == generate_content(prompt, genOk)
    IN IF g.exc # "none" THEN Returned(ApologyResponse(v)) ELSE g

\* fault variant of NoDocumentsRetrieved: the emptiness check is missing
NoDocumentsRetrieved_Missing(retrieved_documents) == FALSE

\* `if not retrieved_documents or len(retrieved_documents) == 0:`
NoDocumentsRetrieved(retrieved_documents) == Len(retrieved_documents) = 0

\* what the store returned to a query call: the inner lists of the result
NothingRetrieved == [documents |-> <<>>, metadatas |-> <<>>, distances |-> <<>>]

\* fault variant of QueryTaskType: the question is embedded as a document
QueryTaskType_Document == "retrieval_document"

\* task_type of the embedding call of query
QueryTaskType == "retrieval_query"

\* fault variant of NResults: the store is always asked for five results
NResults_Fixed(top_k) == 5

\* n_results of the collection.query call of query
NResults(top_k) == top_k

\* the statements inside the outer try of query.
\* Result: exception or returned dict, the external calls made, what the store returned.
QueryTry(v, coll, query_text, top_k, embedOk, storeOk, genOk) ==
    LET e == embed_content(query_text, QueryTaskType, embedOk)
        c1 == <<EmbedCall(QueryTaskType)>>
    IN IF e.exc # "none"
       THEN [exc |-> e.exc, value |-> None, calls |-> c1, retrieved |-> NothingRetrieved]
       ELSE
       LET results == collection_query(coll, e.value.embedding, NResults(top_k), storeOk)
           c2 == c1 \o <<"collection.query">>
       IN IF results.exc # "none"
          THEN [exc |-> results.exc, value |-> None, calls |-> c2, retrieved |-> NothingRetrieved]
          ELSE
          LET retrieved_documents == results.value.documents[1]
              distances == results.value.distances[1]
              metadatas == results.value.metadatas[1]
              got == [documents |-> retrieved_documents, metadatas |-> metadatas,
                      distances |-> distances]
          IN IF NoDocumentsRetrieved(retrieved_documents)
             THEN [exc |-> "none",
                   value |-> ResultDict(v, NoInformationResponse(v), <<>>, <<>>, <<>>),
                   calls |-> c2, retrieved |-> got]
             ELSE
             LET prompt == BuildPrompt(v, query_text, retrieved_documents, metadatas)
             IN IF prompt.exc # "none"
                THEN [exc |-> prompt.exc, value |-> None, calls |-> c2, retrieved |-> got]
                ELSE
                LET ai_response == GenerateOrApologize(v, prompt.value, genOk)
                    c3 == c2 \o <<"generate_content">>
                IN IF ai_response.exc # "none"
                   THEN [exc |-> ai_response.exc, value |-> None, calls |-> c3,
                         retrieved |-> got]
                   ELSE [exc |-> "none",
                         value |-> ResultDict(v, ai_response.value, retrieved_documents,
                                              distances, metadatas),
                         calls |-> c3, retrieved |-> got]

\* fault variant of ExceptException: no outer handler, the exception leaves query
ExceptException_Reraise(v, r) == r

\* fault variant of ExceptException: the handler answers with the no-information reply
ExceptException_NoInformation(v, r) ==
    IF r.exc # "none"
    THEN [r EXCEPT !.exc = "none",
                   !.value = ResultDict(v, NoInformationResponse(v), <<>>, <<>>, <<>>)]
    ELSE r

\* the outer `except Exception` of query: any exception becomes the
\* technical-difficulties reply with empty lists
ExceptException(v, r) ==
    IF r.exc # "none"
    THEN [r EXCEPT !.exc = "none",
                   !.value = ResultDict(v, TechnicalDifficultiesResponse(v), <<>>, <<>>, <<>>)]
    ELSE r

query(v, coll, query_text, top_k, embedOk, storeOk, genOk) ==
    ExceptException(v, QueryTry(v, coll, query_text, top_k, embedOk, storeOk, genOk))

----------------------------------------------------------------------------
(* RAGPipeline.__init__ / _init_chroma / _init_with_sample_data *)

EmptyCollection == [id \in {} |-> NoneMeta]

\* fault variant of _init_with_sample_data: the documents embedded before a
\* failing embedding call are added
_init_with_sample_data_Partial(coll, failAt, onExisting) ==
    LET n == IF failAt = 0 THEN Len(sample_docs) ELSE failAt - 1
        emb == EmbedDocuments(SubSeq(sample_docs, 1, n), 1, 0)
        w == collection_add(coll, SubSeq(sample_docs, 1, n), emb.value,
                            SubSeq(sample_ids, 1, n),
                            PyList(SubSeq(sample_metadata, 1, n)), onExisting)
    IN IF n = 0 \/ w.exc # "none" THEN coll ELSE w.value

\* _init_with_sample_data: embed the three sample documents, add them in one
\* collection.add; any exception is printed and swallowed
_init_with_sample_data(coll, failAt, onExisting) ==
    LET emb == EmbedDocuments(sample_docs, 1, failAt)
    IN IF emb.exc # "none" THEN coll
       ELSE LET w == collection_add(coll, sample_docs, emb.value, sample_ids,
                                    PyList(sample_metadata), onExisting)
            IN IF w.exc # "none" THEN coll ELSE w.value

\* the external calls _init_with_sample_data makes: the embedding calls up to
\* the first that raises, then the collection.add
SampleDataCalls(failAt) ==
    LET emb == EmbedDocuments(sample_docs, 1, failAt)
    IN IF emb.exc # "none" THEN emb.calls ELSE emb.calls \o <<"collection.add">>

\* the external calls that follow create_collection
AfterCreateCalls(v, failAt) == IF v = "api" THEN SampleDataCalls(failAt) ELSE <<>>

\* what create_collection is followed by: the api variant seeds, the cleaned variant does not
AfterCreate(v, failAt) ==
    IF v = "api" THEN _init_with_sample_data(EmptyCollection, failAt, "skip")
    ELSE EmptyCollection

\* fault variant of _init_chroma: the collection is created anew (and seeded) also when it exists
_init_chroma_Recreate(v, ex, coll, failAt) ==
    [exists |-> TRUE, coll |-> AfterCreate(v, failAt), created |-> TRUE,
     calls |-> AfterCreateCalls(v, failAt)]

\* fault variant of _init_chroma: the sample documents are added to a collection that exists too
_init_chroma_Reseed(v, ex, coll, failAt) ==
    IF ex THEN [exists |-> TRUE, coll |-> _init_with_sample_data(coll, 0, "skip"),
                created |-> FALSE, calls |-> SampleDataCalls(0)]
    ELSE [exists |-> TRUE, coll |-> AfterCreate(v, failAt), created |-> TRUE,
          calls |-> AfterCreateCalls(v, failAt)]

\* _init_chroma run to completion by one caller: get_collection, and on its
\* failure create_collection (and the seeding)
_init_chroma(v, ex, coll, failAt) ==
    IF ex THEN [exists |-> TRUE, coll |-> coll, created |-> FALSE, calls |-> <<>>]
    ELSE [exists |-> TRUE, coll |-> AfterCreate(v, failAt), created |-> TRUE,
          calls |-> AfterCreateCalls(v, failAt)]

----------------------------------------------------------------------------
(* State *)

Threads == 1..NumThreads

SeqsUpTo(S, n) == UNION {[1..k -> S] : k \in 0..n}

NoCall == [op |-> "none", args |-> None, exc |-> "none", value |-> None,
           calls |-> <<>>, retrieved |-> NothingRetrieved, caught |-> "none",
           init_calls |-> <<>>]

\* the callers of the concurrent add_documents calls
Callers == 1..NumCallers

\* a caller that is not inside add_documents
IdleAdder == [pc |-> "idle", batch |-> 0, embeddings |-> <<>>, exc |-> "none",
              calls |-> <<>>]

\* no query call in progress
NoQuery == [pc |-> "idle", waits |-> "none", answer |-> "pending",
            query_text |-> "", top_k |-> 0]

\* a request thread of the chat server that has no request yet
IdleHandler == [pc |-> "idle", message |-> "", session_id |-> "", ai_response |-> "",
                documents |-> <<>>, slice |-> <<>>]

\* chat_histories = {}
NoHistories == [s \in {} |-> <<>>]

\* no chat request answered yet
NoReply == [status |-> 0, body |-> [k \in {} |-> <<>>],
            request |-> [route |-> "", is_json |-> FALSE, message |-> "", session_id |-> ""]]

Init ==
    /\ variant \in Variants
    /\ api_key \in BOOLEAN
    /\ exists \in BOOLEAN
    /\ collection = EmptyCollection
    /\ instance = None
    /\ persist_directory = NoDirectory
    /\ constructed = 0
    /\ opened = 0
    /\ last = NoCall
    /\ pc = [t \in Threads |-> "idle"]
    /\ ret = [t \in Threads |-> None]
    /\ adder = [c \in Callers |-> IdleAdder]
    /\ inflight = NoQuery
    /\ rag_initialized = FALSE
    /\ chat_histories = NoHistories
    /\ reply = NoReply
    /\ handler = [t \in Threads |-> IdleHandler]

----------------------------------------------------------------------------
(* Calls made one after the other by a single caller *)

\* fault variant of MustConstruct: every call constructs
MustConstruct_Always(inst) == TRUE

\* should get_rag_pipeline construct: `if _rag_pipeline_instance is None`
MustConstruct(inst) == inst = None

\* fault variant of KeyMissing: the credential is not checked
KeyMissing_Unchecked(key) == FALSE

\* `if not api_key:` on os.environ.get('GOOGLE_API_KEY')
KeyMissing(key) == ~key

\* the persist_directory get_rag_pipeline constructs RAGPipeline with. src/api
\* sets persist_dir = "./chromadb_data" whatever its parameter is; src/cleaned has
\* no parameter and reads CHROMA_PERSIST_DIR, unset here, with the same default
PersistDir(v, requested) == DefaultPersistDir

\* the persist_directory arguments callers pass: src/api takes a directory or
\* None, src/cleaned takes no argument
PersistDirArgs(v) == IF v = "api" THEN Locations \cup {NoDirectory} ELSE {NoDirectory}

\* the record of a get_rag_pipeline call
GetCall(cached, requested) ==
    [NoCall EXCEPT !.op = "get_rag_pipeline",
                   !.args = [cached |-> cached, persist_directory |-> requested]]

\* await get_rag_pipeline(persist_directory): construct the singleton if it is
\* unset (a missing credential raises ValueError before that), return it
GetRagPipeline ==
    \E failAt \in 0..Len(sample_docs), requested \in PersistDirArgs(variant) :
        IF MustConstruct(instance)
        THEN IF KeyMissing(api_key)
             THEN /\ failAt = 0
                  /\ last' = [GetCall(FALSE, requested) EXCEPT !.exc = "ValueError"]
                  /\ UNCHANGED <<variant, api_key, persist_directory, stepVars, chatVars,
                                 exists, collection, instance, constructed, opened, pc, ret>>
             ELSE LET c == _init_chroma(variant, exists, collection, failAt)
                  IN /\ failAt # 0 => (~exists /\ variant = "api")
                     /\ exists' = c.exists
                     /\ collection' = c.coll
                     /\ constructed' = constructed + 1
                     /\ opened' = opened + 1
                     /\ instance' = constructed + 1
                     /\ persist_directory' = PersistDir(variant, requested)
                     /\ last' = [GetCall(FALSE, requested) EXCEPT !.value = constructed + 1,
                                                                  !.init_calls = c.calls]
                     /\ UNCHANGED <<variant, api_key, stepVars, chatVars, pc, ret>>
        ELSE /\ failAt = 0
             /\ last' = [GetCall(TRUE, requested) EXCEPT !.value = instance]
             /\ UNCHANGED <<variant, api_key, persist_directory, stepVars, chatVars,
                            exists, collection, instance, constructed, opened, pc, ret>>

\* the metadatas arguments: None, or a list of dicts
MetadataArgs == {PyNone} \cup {PyList(s) : s \in SeqsUpTo(DictMetas, MaxBatch)}

\* The calls of add_documents the model makes. Batches of equal-length lists
\* of distinct ids with every content, metadatas None or one dict per document, all embedding
\* calls succeeding ...
WellFormedCalls ==
    {[documents |-> d, ids |-> i, metadatas |-> m, failAt |-> 0] :
        <<d, i, m>> \in {x \in SeqsUpTo(Texts, MaxBatch) \X SeqsUpTo(Ids, MaxBatch)
                                 \X MetadataArgs :
                            /\ Len(x[1]) = Len(x[2])
                            /\ NoDuplicates(x[2])
                            /\ x[3].isNone \/ Len(x[3].list) = Len(x[1])}}

\* ... and lists of every combination of lengths, with one fixed content, any
\* one of the embedding calls failing (with len(documents) # len(ids) no
\* embedding call is reached, so none is made to fail)
RepeatText(n) == [k \in 1..n |-> "support hours"]

RepeatIds(n) == [k \in 1..n |-> IF k % 2 = 1 THEN "doc_0_faq" ELSE "doc_1_policy"]

SameIds(n) == [k \in 1..n |-> "doc_0_faq"]

RepeatMeta(n) == [k \in 1..n |-> [category |-> "faq"]]

AnyShapeCalls ==
    {[documents |-> RepeatText(nd), ids |-> RepeatIds(ni), metadatas |-> m, failAt |-> f] :
        <<nd, ni, m, f>> \in {x \in (0..MaxBatch) \X (0..MaxBatch)
                                      \X ({PyNone} \cup {PyList(RepeatMeta(n)) : n \in 0..MaxBatch})
                                      \X (0..MaxBatch) :
                                 x[4] <= x[1] /\ (x[4] = 0 \/ x[1] = x[2])}}

\* ... and batches that repeat one id
DuplicateIdCalls ==
    {[documents |-> RepeatText(n), ids |-> SameIds(n), metadatas |-> PyNone, failAt |-> 0] :
        n \in 2..MaxBatch}

AddCalls == WellFormedCalls \cup AnyShapeCalls \cup DuplicateIdCalls

\* the lengths of the lists of a call (metadatas: -1 for None)
Shape(documents, ids, metadatas) ==
    [nDocs |-> Len(documents), nIds |-> Len(ids),
     nMetas |-> IF metadatas.isNone THEN -1 ELSE Len(metadatas.list)]

\* await rag_pipeline.add_documents(documents, ids, metadatas), the arguments
\* taken from `calls`
AddDocumentsOf(calls) ==
    /\ instance # None
    /\ \E a \in calls, onExisting \in {"skip", "raise"} :
         LET r == add_documents(collection, a.documents, a.ids, a.metadatas, a.failAt, onExisting)
         IN /\ onExisting = "raise" =>
                  a.failAt = 0 /\ Range(a.ids) \cap DOMAIN collection # {}
            /\ collection' = r.coll
            /\ last' = [NoCall EXCEPT !.op = "add_documents",
                                      !.args = Shape(a.documents, a.ids, a.metadatas) @@
                                               [blank |-> BlankText \in Range(a.documents)],
                                      !.exc = r.exc,
                                      !.caught = r.caught,
                                      !.calls = r.calls]
    /\ UNCHANGED <<variant, api_key, persist_directory, stepVars, chatVars,
                    exists, instance, constructed, opened, pc, ret>>

AddDocuments == AddDocumentsOf(AddCalls)

\* load_knowledge.py: the ids and metadata it gives the files of the knowledge directory
KnowledgeIds == << "doc_0_faq", "doc_1_policy" >>

KnowledgeMetadata == [source |-> "file"]

RECURSIVE ReadFiles(_, _)
\* the loop over the text files from file i on: a file that is empty after strip() is skipped
ReadFiles(contents, i) ==
    IF i > Len(contents) THEN [documents |-> <<>>, ids |-> <<>>, metadata_list |-> <<>>]
    ELSE LET rest == ReadFiles(contents, i + 1)
         IN IF contents[i] = "" THEN rest
            ELSE [documents |-> <<contents[i]>> \o rest.documents,
                  ids |-> <<KnowledgeIds[i]>> \o rest.ids,
                  metadata_list |-> <<KnowledgeMetadata>> \o rest.metadata_list]

\* a run of the loader script load_knowledge.py (a process of its own, with
\* its own singleton): get_rag_pipeline constructs a pipeline on the
\* persistent store, then one add_documents call whose exception is printed
LoadKnowledge ==
    /\ variant = "api"
    /\ ~KeyMissing(api_key)
    /\ \E contents \in [1..Len(KnowledgeIds) -> Texts \cup {""}],
          seedFailAt \in 0..Len(sample_docs), onExisting \in {"skip", "raise"} :
         \E failAt \in 0..Len(contents) :
         LET c == _init_chroma(variant, exists, collection, seedFailAt)
             f == ReadFiles(contents, 1)
             r == add_documents(c.coll, f.documents, f.ids, PyList(f.metadata_list),
                                failAt, onExisting)
         IN /\ seedFailAt # 0 => ~exists
            /\ failAt <= Len(f.documents)
            /\ onExisting = "raise" => failAt = 0 /\ Range(f.ids) \cap DOMAIN c.coll # {}
            /\ exists' = c.exists
            /\ collection' = IF Len(f.documents) = 0 THEN c.coll ELSE r.coll
            /\ last' = [NoCall EXCEPT !.op = "load_knowledge",
                                      !.args = [documents |-> f.documents, ids |-> f.ids,
                                                failAt |-> failAt],
                                      !.value = IF Len(f.documents) = 0 THEN "none" ELSE r.exc,
                                      !.calls = IF Len(f.documents) = 0 THEN <<>> ELSE r.calls,
                                      !.init_calls = c.calls]
    /\ UNCHANGED <<variant, api_key, persist_directory, stepVars, chatVars,
                    instance, constructed, opened, pc, ret>>

\* the outcomes of the three external calls of a query: a call that follows a
\* failed one is never made, so its outcome is left at TRUE
FirstFailureOnly(embedOk, storeOk, genOk) ==
    /\ ~embedOk => (storeOk /\ genOk)
    /\ ~storeOk => genOk

\* await rag_pipeline.query(query_text, top_k), the question taken from `texts`
QueryOf(texts) ==
    /\ instance # None
    /\ \E query_text \in texts, top_k \in 1..MaxTopK, embedOk, storeOk, genOk \in BOOLEAN :
         LET r == query(variant, collection, query_text, top_k, embedOk, storeOk, genOk)
         IN /\ FirstFailureOnly(embedOk, storeOk, genOk)
            /\ last' = [NoCall EXCEPT !.op = "query",
                                      !.args = [query_text |-> query_text, top_k |-> top_k,
                                                embedOk |-> embedOk, storeOk |-> storeOk,
                                                genOk |-> genOk],
                                      !.exc = r.exc,
                                      !.value = r.value,
                                      !.calls = r.calls,
                                      !.retrieved = r.retrieved]
    /\ UNCHANGED <<variant, api_key, persist_directory, stepVars, chatVars,
                    exists, collection, instance, constructed, opened, pc, ret>>

Query == QueryOf(Texts)

\* the default top_k of query_rag
DefaultTopK(v) == IF v = "api" THEN 5 ELSE 3

\* await query_rag(query_text): get_rag_pipeline() (constructing the singleton
\* on first use; its ValueError for a missing credential leaves query_rag),
\* then rag_pipeline.query(query_text, top_k) with the default top_k
QueryRag ==
    \E query_text \in QueryTexts, seedFailAt \in 0..Len(sample_docs),
       embedOk, storeOk, genOk \in BOOLEAN :
        LET construct == MustConstruct(instance)
            args == [query_text |-> query_text, top_k |-> DefaultTopK(variant),
                     embedOk |-> embedOk, storeOk |-> storeOk, genOk |-> genOk,
                     cached |-> ~construct]
        IN IF construct /\ KeyMissing(api_key)
           THEN /\ seedFailAt = 0 /\ embedOk /\ storeOk /\ genOk
                /\ last' = [NoCall EXCEPT !.op = "query_rag", !.args = args,
                                          !.exc = "ValueError"]
                /\ UNCHANGED <<variant, api_key, persist_directory, stepVars, chatVars,
                               exists, collection, instance, constructed, opened, pc, ret>>
           ELSE LET c == IF construct
                         THEN _init_chroma(variant, exists, collection, seedFailAt)
                         ELSE [exists |-> exists, coll |-> collection, created |-> FALSE,
                               calls |-> <<>>]
                    r == query(variant, c.coll, query_text, DefaultTopK(variant),
                               embedOk, storeOk, genOk)
                IN /\ FirstFailureOnly(embedOk, storeOk, genOk)
                   /\ seedFailAt # 0 => (construct /\ ~exists /\ variant = "api")
                   /\ exists' = c.exists
                   /\ collection' = c.coll
                   /\ instance' = IF construct THEN constructed + 1 ELSE instance
                   /\ constructed' = IF construct THEN constructed + 1 ELSE constructed
                   /\ opened' = IF construct THEN opened + 1 ELSE opened
                   /\ persist_directory' = IF construct THEN PersistDir(variant, NoDirectory)
                                           ELSE persist_directory
                   /\ last' = [NoCall EXCEPT !.op = "query_rag", !.args = args,
                                             !.exc = r.exc, !.value = r.value,
                                             !.calls = r.calls, !.retrieved = r.retrieved,
                                             !.init_calls = c.calls]
                   /\ UNCHANGED <<variant, api_key, stepVars, chatVars, pc, ret>>

Next == GetRagPipeline \/ AddDocuments \/ LoadKnowledge \/ Query

Spec == Init /\ [][Next]_vars

----------------------------------------------------------------------------
(* get_rag_pipeline run by concurrent request threads (Flask's threaded     *)
(* server: chat_endpoint runs asyncio.run(...) in the thread of each        *)
(* request). A thread can be preempted between any two of the steps below;  *)
(* the construction of RAGPipeline blocks on the vector store.              *)

\* a request thread enters get_rag_pipeline
Call(t) ==
    /\ pc[t] \in {"idle", "done", "raised"}
    /\ pc' = [pc EXCEPT ![t] = "check"]
    /\ ret' = [ret EXCEPT ![t] = None]
    /\ UNCHANGED <<variant, api_key, persist_directory, stepVars, chatVars,
                    exists, collection, instance, constructed, opened, last>>

\* `if _rag_pipeline_instance is None:`
Check(t) ==
    /\ pc[t] = "check"
    /\ pc' = [pc EXCEPT ![t] = IF ~MustConstruct(instance) THEN "return"
                               ELSE IF KeyMissing(api_key) THEN "raised"
                               ELSE "get_collection"]
    /\ UNCHANGED <<variant, api_key, persist_directory, stepVars, chatVars,
                    exists, collection, instance, constructed, opened, last, ret>>

\* _init_chroma: chroma_client.get_collection(name) succeeds if the collection exists
GetCollection(t) ==
    /\ pc[t] = "get_collection"
    /\ opened' = opened + 1
    /\ pc' = [pc EXCEPT ![t] = IF exists THEN "assign" ELSE "create_collection"]
    /\ UNCHANGED <<variant, api_key, persist_directory, stepVars, chatVars,
                    exists, collection, instance, constructed, last, ret>>

\* _init_chroma: chroma_client.create_collection(name) raises if the
\* collection exists by now; the exception leaves RAGPipeline() and get_rag_pipeline
CreateCollection(t) ==
    /\ pc[t] = "create_collection"
    /\ IF exists
       THEN /\ pc' = [pc EXCEPT ![t] = "raised"]
            /\ UNCHANGED <<exists, collection>>
       ELSE /\ exists' = TRUE
            /\ collection' = EmptyCollection
            /\ pc' = [pc EXCEPT ![t] = IF variant = "api" THEN "seed" ELSE "assign"]
    /\ UNCHANGED <<variant, api_key, persist_directory, stepVars, chatVars,
                    instance, constructed, opened, last, ret>>

\* _init_chroma: self._init_with_sample_data()
Seed(t) ==
    /\ pc[t] = "seed"
    /\ \E failAt \in 0..Len(sample_docs) :
         collection' = _init_with_sample_data(collection, failAt, "skip")
    /\ pc' = [pc EXCEPT ![t] = "assign"]
    /\ UNCHANGED <<variant, api_key, persist_directory, stepVars, chatVars,
                    exists, instance, constructed, opened, last, ret>>

\* `_rag_pipeline_instance = RAGPipeline(...)`: the constructed object is stored
Assign(t) ==
    /\ pc[t] = "assign"
    /\ constructed' = constructed + 1
    /\ instance' = constructed + 1
    /\ pc' = [pc EXCEPT ![t] = "return"]
    /\ persist_directory' = PersistDir(variant, NoDirectory)
    /\ UNCHANGED <<variant, api_key, stepVars, chatVars, exists, collection, opened, last, ret>>

\* `return _rag_pipeline_instance`
Return(t) ==
    /\ pc[t] = "return"
    /\ ret' = [ret EXCEPT ![t] = instance]
    /\ pc' = [pc EXCEPT ![t] = "done"]
    /\ UNCHANGED <<variant, api_key, persist_directory, stepVars, chatVars,
                    exists, collection, instance, constructed, opened, last>>

ThreadNext ==
    \E t \in Threads :
        \/ Call(t)
        \/ Check(t)
        \/ GetCollection(t)
        \/ CreateCollection(t)
        \/ Seed(t)
        \/ Assign(t)
        \/ Return(t)

\* request threads exist in a server process only: index.py refuses to start
\* without GOOGLE_API_KEY
ServerInit == Init /\ api_key

ColdStartSpec == ServerInit /\ [][ThreadNext]_vars

----------------------------------------------------------------------------
(* All operations on the pipeline and its store: the calls above, with      *)
(* add_documents on lists of fixed content and questions that may be blank, *)
(* and the script persistent_add_docs.py, a process of its own on the       *)
(* persistent store                                                         *)

\* task_type of the embedding calls of the script: for DOCUMENTS, for the test query
ScriptTaskType == [documents |-> "retrieval_document", test_query |-> "retrieval_query"]

RECURSIVE ScriptEmbeddings(_, _)
\* the embedding loop of the script over DOCUMENTS[i..]: the failAt-th call raises
ScriptEmbeddings(i, failAt) ==
    IF i > Len(DOCUMENTS) THEN [exc |-> "none", value |-> <<>>, calls |-> <<>>]
    ELSE LET r == embed_content(DOCUMENTS[i], ScriptTaskType.documents, i # failAt)
             call == <<EmbedCall(ScriptTaskType.documents)>>
         IN IF r.exc # "none" THEN [exc |-> r.exc, value |-> <<>>, calls |-> call]
            ELSE LET rest == ScriptEmbeddings(i + 1, failAt)
                 IN [exc |-> rest.exc,
                     value |-> <<r.value.embedding>> \o rest.value,
                     calls |-> call \o rest.calls]

\* fault variant of ScriptMain: the documents embedded before a failing
\* embedding call are added
ScriptMain_Partial(v, failAt, embedOk, storeOk) ==
    IF failAt = 0 THEN
        LET emb == ScriptEmbeddings(1, 0)
        IN [coll |-> collection_add(EmptyCollection, DOCUMENTS, emb.value, doc_ids(v),
                                    PyList(ScriptMetadata(v)), "skip").value,
            calls |-> emb.calls \o <<"collection.add">>, retrieved |-> NothingRetrieved]
    ELSE [coll |-> [id \in {doc_ids(v)[i] : i \in 1..(failAt - 1)} |->
                      [document |-> "", embedding |-> 0, metadata |-> NoneMeta]],
          calls |-> ScriptEmbeddings(1, failAt).calls, retrieved |-> NothingRetrieved]

\* main() of the script on a collection just (re)created: embed DOCUMENTS
\* (an exception prints and returns), add them in one collection.add, then
\* embed the test query and query the collection for 3 results (an exception
\* there is printed by the outer handler)
ScriptMain(v, failAt, embedOk, storeOk) ==
    LET emb == ScriptEmbeddings(1, failAt)
    IN IF emb.exc # "none"
       THEN [coll |-> EmptyCollection, calls |-> emb.calls, retrieved |-> NothingRetrieved]
       ELSE
       LET w == collection_add(EmptyCollection, DOCUMENTS, emb.value, doc_ids(v),
                               PyList(ScriptMetadata(v)), "skip")
           c1 == emb.calls \o <<"collection.add">>
       IN IF w.exc # "none"
          THEN [coll |-> EmptyCollection, calls |-> c1, retrieved |-> NothingRetrieved]
          ELSE
          LET e == embed_content(test_query(v), ScriptTaskType.test_query, embedOk)
              c2 == c1 \o <<EmbedCall(ScriptTaskType.test_query)>>
          IN IF e.exc # "none"
             THEN [coll |-> w.value, calls |-> c2, retrieved |-> NothingRetrieved]
             ELSE
             LET results == collection_query(w.value, e.value.embedding, 3, storeOk)
                 c3 == c2 \o <<"collection.query">>
             IN IF results.exc # "none"
                THEN [coll |-> w.value, calls |-> c3, retrieved |-> NothingRetrieved]
                ELSE [coll |-> w.value, calls |-> c3,
                      retrieved |-> [documents |-> results.value.documents[1],
                                     metadatas |-> results.value.metadatas[1],
                                     distances |-> results.value.distances[1]]]

\* a run of persistent_add_docs.py: the collection is deleted if it exists
\* and created, then main() goes on as above
PersistentAddDocs ==
    /\ ~KeyMissing(api_key)
    /\ \E failAt \in 0..Len(DOCUMENTS), embedOk, storeOk \in BOOLEAN :
         LET r == ScriptMain(variant, failAt, embedOk, storeOk)
         IN /\ failAt # 0 => (embedOk /\ storeOk)
            /\ ~embedOk => storeOk
            /\ exists' = TRUE
            /\ collection' = r.coll
            /\ last' = [NoCall EXCEPT !.op = "persistent_add_docs",
                                      !.args = [failAt |-> failAt, embedOk |-> embedOk,
                                                storeOk |-> storeOk],
                                      !.calls = r.calls,
                                      !.retrieved = r.retrieved]
    /\ UNCHANGED <<variant, api_key, persist_directory, stepVars, chatVars,
                    instance, constructed, opened, pc, ret>>

\* add_documents called with one document that is whitespace only
BlankDocumentCalls ==
    {[documents |-> <<BlankText>>, ids |-> <<"doc_0_faq">>, metadatas |-> PyNone,
      failAt |-> f] : f \in 0..1}

\* add_documents with lists of every combination of lengths, or a blank document
AddFixedContent == AddDocumentsOf(AnyShapeCalls \cup BlankDocumentCalls)

\* query with any question, a whitespace-only one included
QueryAnyText == QueryOf(QueryTexts)

ServiceNext ==
    \/ GetRagPipeline
    \/ AddFixedContent
    \/ LoadKnowledge
    \/ PersistentAddDocs
    \/ QueryAnyText
    \/ QueryRag

ServiceSpec == Init /\ [][ServiceNext]_vars

----------------------------------------------------------------------------
(* add_documents run by concurrent callers on the same collection. The      *)
(* embedding calls block on the network, one after the other; the write is  *)
(* the single collection.add call that hands the store the texts, vectors,  *)
(* ids and metadata of the batch together.                                  *)

\* the batches of the concurrent callers: they share ids and differ in the
\* text and the metadata they give each id
ConcurrentBatches ==
    << [documents |-> << "support hours", "refund\npolicy" >>,
        ids |-> << "doc_0_faq", "doc_1_policy" >>,
        metadatas |-> PyList(<< [category |-> "faq"], [category |-> "faq"] >>)],
       [documents |-> << "refund\npolicy", "support hours" >>,
        ids |-> << "doc_0_faq", "doc_1_policy" >>,
        metadatas |-> PyList(<< [source |-> "file"], [source |-> "file"] >>)],
       [documents |-> << "refund\npolicy" >>,
        ids |-> << "doc_1_policy" >>,
        metadatas |-> PyNone] >>

\* everything the steps of add_documents leave alone
addFrame == <<variant, api_key, exists, instance, persist_directory, constructed, opened,
              last, pc, ret, inflight, chatVars>>

\* a caller enters add_documents with one of the batches; the length checks pass
StartAdd(c) ==
    /\ instance # None
    /\ adder[c].pc = "idle"
    /\ \E b \in 1..Len(ConcurrentBatches) :
         /\ ~LengthMismatch(ConcurrentBatches[b].documents, ConcurrentBatches[b].ids,
                            ConcurrentBatches[b].metadatas)
         /\ adder' = [adder EXCEPT ![c] = [pc |-> "embed", batch |-> b,
                                           embeddings |-> <<>>, exc |-> "none",
                                           calls |-> <<>>]]
    /\ UNCHANGED <<collection, addFrame>>

\* an external call of add_documents as its caller's list of calls records it
ExternalCall(name, content) == [call |-> name, content |-> content]

\* fault variant of EmbedOne: an embedding call that raises is made again
EmbedOne_Retry(c) ==
    /\ adder[c].pc = "embed"
    /\ Len(adder[c].calls) <= Len(ConcurrentBatches[adder[c].batch].documents)
    /\ \E ok \in BOOLEAN :
         LET docs == ConcurrentBatches[adder[c].batch].documents
             doc == docs[Len(adder[c].embeddings) + 1]
             e == embed_content(doc, "retrieval_document", ok)
             got == Append(adder[c].embeddings, e.value.embedding)
             made == Append(adder[c].calls, ExternalCall("embed_content", doc))
         IN adder' = [adder EXCEPT ![c] =
                        IF e.exc # "none"
                        THEN [@ EXCEPT !.calls = made]
                        ELSE [@ EXCEPT !.embeddings = got, !.calls = made,
                                       !.pc = IF Len(got) = Len(docs) THEN "write"
                                              ELSE "embed"]]
    /\ UNCHANGED <<collection, addFrame>>

\* the next genai.embed_content call of the loop returns or raises
EmbedOne(c) ==
    /\ adder[c].pc = "embed"
    /\ \E ok \in BOOLEAN :
         LET docs == ConcurrentBatches[adder[c].batch].documents
             doc == docs[Len(adder[c].embeddings) + 1]
             e == embed_content(doc, "retrieval_document", ok)
             got == Append(adder[c].embeddings, e.value.embedding)
             made == Append(adder[c].calls, ExternalCall("embed_content", doc))
         IN adder' = [adder EXCEPT ![c] =
                        IF e.exc # "none"
                        THEN [@ EXCEPT !.pc = "raised", !.calls = made, !.exc = PrintAndRaise(
                                  [exc |-> e.exc, coll |-> collection, calls |-> <<>>]).exc]
                        ELSE [@ EXCEPT !.embeddings = got, !.calls = made,
                                       !.pc = IF Len(got) = Len(docs) THEN "write"
                                              ELSE "embed"]]
    /\ UNCHANGED <<collection, addFrame>>

\* fault variant of StoreBatch: the vectors of the batch replace those of ids
\* already stored, the texts and metadata of these ids stay
StoreBatch_VectorsReplaced(coll, batch, embeddings, onExisting) ==
    LET w == collection_add(coll, batch.documents, embeddings, batch.ids, batch.metadatas,
                            "skip")
        pos(id) == CHOOSE i \in 1..Len(batch.ids) : batch.ids[i] = id
    IN IF w.exc # "none" THEN w
       ELSE Returned([id \in DOMAIN w.value |->
                         IF id \in Range(batch.ids)
                         THEN [w.value[id] EXCEPT !.embedding = embeddings[pos(id)]]
                         ELSE w.value[id]])

\* `self.collection.add(documents=..., embeddings=..., ids=..., metadatas=...)`
StoreBatch(coll, batch, embeddings, onExisting) ==
    collection_add(coll, batch.documents, embeddings, batch.ids, batch.metadatas, onExisting)

\* the collection.add call of a caller, applied by the store in one step
WriteBatch(c) ==
    /\ adder[c].pc = "write"
    /\ \E onExisting \in {"skip", "raise"} :
         LET w == StoreBatch(collection, ConcurrentBatches[adder[c].batch],
                             adder[c].embeddings, onExisting)
             made == Append(adder[c].calls, ExternalCall("collection.add", ""))
         IN IF w.exc # "none"
            THEN /\ adder' = [adder EXCEPT ![c] = [@ EXCEPT !.pc = "raised", !.exc = w.exc,
                                                            !.calls = made]]
                 /\ UNCHANGED collection
            ELSE /\ adder' = [adder EXCEPT ![c] = [@ EXCEPT !.pc = "done", !.calls = made]]
                 /\ collection' = w.value
    /\ UNCHANGED addFrame

\* add_documents has returned or raised: the caller is free for its next call
FinishAdd(c) ==
    /\ adder[c].pc \in {"done", "raised"}
    /\ adder' = [adder EXCEPT ![c] = IdleAdder]
    /\ UNCHANGED <<collection, addFrame>>

ConcurrentAddNext ==
    \/ GetRagPipeline
    \/ \E c \in Callers : StartAdd(c) \/ EmbedOne(c) \/ WriteBatch(c) \/ FinishAdd(c)

ConcurrentAddSpec == Init /\ [][ConcurrentAddNext]_vars

----------------------------------------------------------------------------
(* RAGPipeline.query step by step: the call blocks on genai.embed_content,  *)
(* then on collection.query, then on generate_content. Each of these either *)
(* returns, raises, or never responds; query passes no timeout to any of    *)
(* them and sets none around them.                                          *)

\* everything the steps of query leave alone
queryFrame == <<variant, api_key, exists, collection, instance, persist_directory,
                constructed, opened, pc, ret, adder, chatVars>>

\* a caller enters query: the first external call is the embedding call
StartQuery ==
    /\ instance # None
    /\ inflight.pc \in {"idle", "returned"}
    /\ \E query_text \in QueryTexts, top_k \in 1..MaxTopK :
         inflight' = [NoQuery EXCEPT !.pc = "waiting", !.waits = "embed_content",
                                     !.query_text = query_text, !.top_k = top_k]
    /\ UNCHANGED <<last, queryFrame>>

\* the call query waits for will never respond
Hang ==
    /\ inflight.pc = "waiting"
    /\ inflight.answer = "pending"
    /\ inflight' = [inflight EXCEPT !.answer = "never"]
    /\ UNCHANGED <<last, queryFrame>>

\* query returns r to its caller
ReturnFromQuery(r) ==
    /\ inflight' = [inflight EXCEPT !.pc = "returned", !.waits = "none"]
    /\ last' = [NoCall EXCEPT !.op = "query",
                              !.args = [query_text |-> inflight.query_text,
                                        top_k |-> inflight.top_k],
                              !.exc = r.exc, !.value = r.value,
                              !.calls = r.calls, !.retrieved = r.retrieved]

\* the call query waits for returns (ok) or raises: query goes on to its next
\* external call, or returns
Respond ==
    /\ inflight.pc = "waiting"
    /\ inflight.answer = "pending"
    /\ \E ok \in BOOLEAN :
         LET q(embedOk, storeOk, genOk) ==
                 query(variant, collection, inflight.query_text, inflight.top_k,
                       embedOk, storeOk, genOk)
         IN CASE inflight.waits = "embed_content" ->
                   IF ok
                   THEN /\ inflight' = [inflight EXCEPT !.waits = "collection.query"]
                        /\ UNCHANGED last
                   ELSE ReturnFromQuery(q(FALSE, TRUE, TRUE))
              [] inflight.waits = "collection.query" ->
                   IF ok /\ "generate_content" \in Range(q(TRUE, TRUE, TRUE).calls)
                   THEN /\ inflight' = [inflight EXCEPT !.waits = "generate_content"]
                        /\ UNCHANGED last
                   ELSE ReturnFromQuery(q(TRUE, ok, TRUE))
              [] inflight.waits = "generate_content" ->
                   ReturnFromQuery(q(TRUE, TRUE, ok))
    /\ UNCHANGED queryFrame

\* the steps that take a query call in progress further
QueryProgress == Respond

QueryStepNext == GetRagPipeline \/ StartQuery \/ Respond \/ Hang

QueryStepSpec == Init /\ [][QueryStepNext]_vars

----------------------------------------------------------------------------
(* The chat server, index.py: /chat (src/api) and /api/chat (src/deployment)  *)
(* requests handled one at a time. The server refuses to start without      *)
(* GOOGLE_API_KEY. The rebuild script may run between requests.             *)

\* session ids of the requests: strings, or a JSON array, which Python cannot
\* use as a dict key
Sessions == {"s1", "s2"}

UnhashableSessionId == "['s1']"

SessionIds == Sessions \cup {UnhashableSessionId}

\* request.json.get('message'): empty, or a question
ChatMessages == {"", "support hours"}

\* str(e) of the exceptions a request can meet
str(e) ==
    CASE e = "OSError" -> "[Errno 13] Permission denied: './chromadb_data'"
      [] e = "TypeError" -> "unhashable type: 'list'"

ExceptionTexts == {str("OSError"), str("TypeError")}

\* the content of the first entry of a history: CONTEXT / SYSTEM_PROMPT
SystemPrompt(v) == IF v = "api" THEN "<CONTEXT>" ELSE "<SYSTEM_PROMPT>"

HistoryEntry(role, content) == [role |-> role, content |-> content]

RECURSIVE JoinLines(_)
\* "\n".join(documents)
JoinLines(documents) ==
    IF Len(documents) = 0 THEN ""
    ELSE IF Len(documents) = 1 THEN documents[1]
    ELSE documents[1] \o "\n" \o JoinLines(Tail(documents))

\* the history entry that carries the retrieved passages
RetrievedContext(documents) == "\n---\nRetrieved knowledge:\n" \o JoinLines(documents)

\* ai_response of the handler `except Exception` around query_rag
RagErrorResponse(v) ==
    IF v = "api"
    THEN "I'm currently having trouble accessing my knowledge base. Please try asking a different question or try again later."
    ELSE "I'm having trouble accessing my knowledge base right now. Is there something else I can help with?"

\* the deployment server keeps the last 20 entries of a history
HistoryLimit == 20

\* fault variant of TrimHistory: the history is never shortened
TrimHistory_Never(v, h) == h

\* chat_histories[session_id] = chat_histories[session_id][-20:] when longer
TrimHistory(v, h) ==
    IF v = "cleaned" /\ Len(h) > HistoryLimit
    THEN SubSeq(h, Len(h) - HistoryLimit + 1, Len(h))
    ELSE h

\* the reply to a request whose pipeline initialization raised e (deployment)
InitFailureReply(e) ==
    [status |-> 500,
     body |-> [error |-> <<"Failed to initialize RAG pipeline: ", str(e)>>,
               response |-> <<"I apologize, but I am having trouble connecting to my knowledge base. Please try again in a moment.">>]]

\* the reply of the outer `except Exception` of chat_endpoint
OuterExceptReply(v) ==
    IF v = "api"
    THEN [status |-> 500,
          body |-> [error |-> <<"An error occurred processing your request">>]]
    ELSE [status |-> 500,
          body |-> [error |-> <<"An error occurred processing your request">>,
                    response |-> <<"I apologize for the inconvenience, but I encountered an error. Please try again.">>]]

BadRequest(text) == [status |-> 400, body |-> [error |-> <<text>>]]

\* get_rag_pipeline as a request reaches it: the instance if there is one,
\* else a construction, which raises when the store directory cannot be opened
\* (os.makedirs / chromadb.PersistentClient) and changes nothing then
PipelineForRequest(clientOk, seedFailAt) ==
    IF ~MustConstruct(instance) \/ ~clientOk
    THEN [exc |-> IF MustConstruct(instance) THEN "OSError" ELSE "none",
          exists |-> exists, coll |-> collection, instance |-> instance,
          constructed |-> constructed, opened |-> opened, dir |-> persist_directory]
    ELSE LET c == _init_chroma(variant, exists, collection, seedFailAt)
         IN [exc |-> "none", exists |-> c.exists, coll |-> c.coll,
             instance |-> constructed + 1, constructed |-> constructed + 1,
             opened |-> opened + 1, dir |-> PersistDir(variant, NoDirectory)]

\* the history of a session as the handler finds or creates it
SessionHistory(session_id) ==
    IF session_id \in DOMAIN chat_histories THEN chat_histories[session_id]
    ELSE <<HistoryEntry("system", SystemPrompt(variant))>>

\* chat_histories with the history of session_id set to h
WithHistory(session_id, h) ==
    [s \in DOMAIN chat_histories \cup {session_id} |->
        IF s = session_id THEN h ELSE chat_histories[s]]

\* the entries one answered request appends: the user message, in src/api the
\* retrieved passages when there are any, the assistant response when it is
\* not empty (the deployment server stores them only with DEBUG=true, unset here)
AnsweredHistory(v, h, message, raised, result, ai_response) ==
    LET h1 == Append(h, HistoryEntry("user", message))
        h2 == IF v = "api" /\ ~raised /\ Len(result.documents) > 0
              THEN Append(h1, HistoryEntry("system", RetrievedContext(result.documents)))
              ELSE h1
        h3 == IF v = "api" /\ ai_response = "" THEN h2
              ELSE Append(h2, HistoryEntry("assistant", ai_response))
    IN TrimHistory(v, h3)

\* one POST to the chat route: initialize_rag on the first request (the
\* deployment server answers 500 when it raises, src/api goes on), the checks
\* of the request, the history of the session, query_rag, the reply.
\* The store is either reachable or not for the whole request.
\* The session id is taken from `session_ids`, the outcome of every external
\* call from `outcomes`, and a request that is answered goes to a history
\* shorter than `longest`.
ChatEndpointOf(session_ids, outcomes, longest) ==
    /\ ~KeyMissing(api_key)
    /\ \E is_json \in BOOLEAN, message \in ChatMessages, session_id \in session_ids,
          clientOk \in outcomes, seedFailAt \in 0..Len(sample_docs),
          embedOk, storeOk, genOk \in outcomes :
         LET request == [route |-> "chat", is_json |-> is_json, message |-> message,
                         session_id |-> session_id]
             p == PipelineForRequest(clientOk, seedFailAt)
             initFailed == ~rag_initialized /\ p.exc # "none"
             refused == initFailed /\ variant = "cleaned"
             invalid == ~is_json \/ message = ""
             unhashable == session_id = UnhashableSessionId
             answered == ~refused /\ ~invalid /\ ~unhashable
             raised == p.exc # "none"
             r == query(variant, p.coll, message, DefaultTopK(variant),
                        embedOk, storeOk, genOk)
             ai_response == IF raised THEN RagErrorResponse(variant) ELSE r.value.response
             touched == ~rag_initialized \/ answered
         IN /\ FirstFailureOnly(embedOk, storeOk, genOk)
            /\ (~answered \/ raised) => (embedOk /\ storeOk /\ genOk)
            /\ ~is_json => (message = "" /\ session_id = "s1")
            /\ (seedFailAt # 0 \/ ~clientOk) => (touched /\ MustConstruct(instance))
            /\ seedFailAt # 0 => (clientOk /\ ~exists /\ variant = "api" /\ FALSE \in outcomes)
            /\ answered => Len(SessionHistory(session_id)) < longest
            /\ rag_initialized' = (rag_initialized \/ p.exc = "none")
            /\ exists' = IF touched THEN p.exists ELSE exists
            /\ collection' = IF touched THEN p.coll ELSE collection
            /\ instance' = IF touched THEN p.instance ELSE instance
            /\ constructed' = IF touched THEN p.constructed ELSE constructed
            /\ opened' = IF touched THEN p.opened ELSE opened
            /\ persist_directory' = IF touched THEN p.dir ELSE persist_directory
            /\ chat_histories' =
                 IF answered
                 THEN WithHistory(session_id,
                                  AnsweredHistory(variant, SessionHistory(session_id), message,
                                                  raised, r.value, ai_response))
                 ELSE chat_histories
            /\ reply' =
                 LET answer ==
                       IF refused THEN InitFailureReply(p.exc)
                       ELSE IF ~is_json THEN BadRequest("Content-Type must be application/json")
                       ELSE IF message = "" THEN BadRequest("Message is required")
                       ELSE IF unhashable THEN OuterExceptReply(variant)
                       ELSE [status |-> 200, body |-> [response |-> <<ai_response>>]]
                 IN [status |-> answer.status, body |-> answer.body, request |-> request]
    /\ UNCHANGED <<variant, api_key, stepVars, last, pc, ret, handler>>

\* a chat request with any session id and any outcome of the external calls
ChatEndpoint == ChatEndpointOf(SessionIds, BOOLEAN, MaxHistory)

ChatNext == ChatEndpoint \/ PersistentAddDocs

ChatSpec == ServerInit /\ [][ChatNext]_vars

----------------------------------------------------------------------------
(* Sessions followed over many requests: chat requests whose external calls *)
(* all succeed, and the clear-session route of the deployment server        *)

\* request.json.get('session_id') of a request that carries none
NoSessionId == ""

\* fault variant of ClearedHistories: every session is reset
ClearedHistories_All(session_id) ==
    [s \in DOMAIN chat_histories |-> <<HistoryEntry("system", SystemPrompt(variant))>>]

\* chat_histories after clear_session for a known session_id: that session
\* keeps only the system prompt
ClearedHistories(session_id) ==
    WithHistory(session_id, <<HistoryEntry("system", SystemPrompt(variant))>>)

\* the body of the two success replies of clear_session
SessionReply(text) == [status |-> 200, body |-> [status |-> <<"success">>, message |-> <<text>>]]

\* one POST to /api/clear-session (the deployment server has the route,
\* src/api has not). An unhashable session_id makes `session_id in
\* chat_histories` raise TypeError, which no handler of the route catches:
\* Flask answers 500.
ClearSession ==
    /\ ~KeyMissing(api_key)
    /\ variant = "cleaned"
    /\ \E is_json \in BOOLEAN, session_id \in SessionIds \cup {NoSessionId} :
         LET request == [route |-> "clear-session", is_json |-> is_json, message |-> "",
                         session_id |-> session_id]
             known == session_id \in DOMAIN chat_histories
             answer ==
               IF ~is_json THEN BadRequest("Content-Type must be application/json")
               ELSE IF session_id = NoSessionId THEN BadRequest("session_id is required")
               ELSE IF session_id = UnhashableSessionId
                    THEN [status |-> 500, body |-> [error |-> <<"Internal Server Error">>]]
               ELSE IF known THEN SessionReply("Session cleared")
               ELSE SessionReply("Session not found")
         IN /\ ~is_json => session_id = NoSessionId
            /\ chat_histories' = IF answer.status = 200 /\ known
                                 THEN ClearedHistories(session_id)
                                 ELSE chat_histories
            /\ reply' = [status |-> answer.status, body |-> answer.body, request |-> request]
    /\ UNCHANGED <<variant, api_key, persist_directory, stepVars, rag_initialized, handler,
                    exists, collection, instance, constructed, opened, last, pc, ret>>

\* a chat request of one of the sessions, every external call succeeding
ChatInSession == ChatEndpointOf(Sessions, {TRUE}, MaxLongHistory)

HistoryNext == ChatInSession \/ ClearSession

HistorySpec == ServerInit /\ [][HistoryNext]_vars

----------------------------------------------------------------------------
(* chat_endpoint run by concurrent request threads (Flask's server handles  *)
(* each request in a thread of its own). A thread can be suspended between   *)
(* any two statements, and inside                                           *)
(* `chat_histories[s] = chat_histories[s][-20:]` between the slice and the  *)
(* assignment. Each list operation itself is one step. Every external call  *)
(* succeeds here. Each thread handles one request; requests handled one at  *)
(* a time may come while no thread is inside chat_endpoint.                 *)

\* the questions of the concurrent requests, by thread
ThreadMessages == <<test_query("api"), test_query("cleaned"), "refund\npolicy">>

\* the session the concurrent requests belong to
SharedSession == "s1"

\* everything the steps of chat_endpoint leave alone
handlerFrame == <<variant, api_key, stepVars, last, pc, ret>>

pipelineVars == <<exists, collection, instance, constructed, opened, persist_directory,
                  rag_initialized>>

\* a request arrives; initialize_rag runs if the flag is not set
Receive(t) ==
    /\ ~KeyMissing(api_key)
    /\ handler[t].pc = "idle"
    /\ LET p == PipelineForRequest(TRUE, 0)
       IN /\ exists' = IF rag_initialized THEN exists ELSE p.exists
          /\ collection' = IF rag_initialized THEN collection ELSE p.coll
          /\ instance' = IF rag_initialized THEN instance ELSE p.instance
          /\ constructed' = IF rag_initialized THEN constructed ELSE p.constructed
          /\ opened' = IF rag_initialized THEN opened ELSE p.opened
          /\ persist_directory' = IF rag_initialized THEN persist_directory ELSE p.dir
          /\ rag_initialized' = TRUE
    /\ handler' = [handler EXCEPT ![t] = [IdleHandler EXCEPT !.pc = "check",
                                                          !.message = ThreadMessages[t],
                                                          !.session_id = SharedSession]]
    /\ UNCHANGED <<chat_histories, reply, handlerFrame>>

\* `if session_id not in chat_histories:`
CheckSession(t) ==
    /\ handler[t].pc = "check"
    /\ handler' = [handler EXCEPT ![t].pc =
                     IF handler[t].session_id \in DOMAIN chat_histories THEN "append_user"
                     ELSE "create"]
    /\ UNCHANGED <<chat_histories, reply, pipelineVars, handlerFrame>>

\* `chat_histories[session_id] = [{"role": "system", ...}]`
CreateSession(t) ==
    /\ handler[t].pc = "create"
    /\ chat_histories' = WithHistory(handler[t].session_id,
                                     <<HistoryEntry("system", SystemPrompt(variant))>>)
    /\ handler' = [handler EXCEPT ![t].pc = "append_user"]
    /\ UNCHANGED <<reply, pipelineVars, handlerFrame>>

\* `chat_histories[session_id].append({"role": "user", "content": message})`
AppendUser(t) ==
    /\ handler[t].pc = "append_user"
    /\ chat_histories' = WithHistory(handler[t].session_id,
                                     Append(chat_histories[handler[t].session_id],
                                            HistoryEntry("user", handler[t].message)))
    /\ handler' = [handler EXCEPT ![t].pc = "query"]
    /\ UNCHANGED <<reply, pipelineVars, handlerFrame>>

\* `rag_result = asyncio.run(query_rag(message))` returns
AskPipeline(t) ==
    /\ handler[t].pc = "query"
    /\ LET r == query(variant, collection, handler[t].message, DefaultTopK(variant),
                      TRUE, TRUE, TRUE)
       IN handler' = [handler EXCEPT ![t].pc = IF variant = "api" /\ Len(r.value.documents) > 0
                                                THEN "append_context" ELSE "append_assistant",
                                     ![t].ai_response = r.value.response,
                                     ![t].documents = r.value.documents]
    /\ UNCHANGED <<chat_histories, reply, pipelineVars, handlerFrame>>

\* src/api: the retrieved passages are appended as a system entry
AppendContext(t) ==
    /\ handler[t].pc = "append_context"
    /\ chat_histories' = WithHistory(handler[t].session_id,
                                     Append(chat_histories[handler[t].session_id],
                                            HistoryEntry("system",
                                                         RetrievedContext(handler[t].documents))))
    /\ handler' = [handler EXCEPT ![t].pc = "append_assistant"]
    /\ UNCHANGED <<reply, pipelineVars, handlerFrame>>

\* `chat_histories[session_id].append({"role": "assistant", "content": ai_response})`
AppendAssistant(t) ==
    /\ handler[t].pc = "append_assistant"
    /\ chat_histories' = WithHistory(handler[t].session_id,
                                     Append(chat_histories[handler[t].session_id],
                                            HistoryEntry("assistant", handler[t].ai_response)))
    /\ handler' = [handler EXCEPT ![t].pc = IF variant = "cleaned" THEN "trim" ELSE "reply"]
    /\ UNCHANGED <<reply, pipelineVars, handlerFrame>>

\* `if len(chat_histories[session_id]) > 20:` and, when it is, the slice
\* chat_histories[session_id][-20:], a new list
SliceHistory(t) ==
    /\ handler[t].pc = "trim"
    /\ LET h == chat_histories[handler[t].session_id]
       IN handler' = [handler EXCEPT ![t].pc = IF Len(h) > HistoryLimit THEN "assign"
                                                ELSE "reply",
                                     ![t].slice = IF Len(h) > HistoryLimit
                                                  THEN TrimHistory(variant, h) ELSE <<>>]
    /\ UNCHANGED <<chat_histories, reply, pipelineVars, handlerFrame>>

\* the assignment of the slice to chat_histories[session_id]
AssignSlice(t) ==
    /\ handler[t].pc = "assign"
    /\ chat_histories' = WithHistory(handler[t].session_id, handler[t].slice)
    /\ handler' = [handler EXCEPT ![t].pc = "reply", ![t].slice = <<>>]
    /\ UNCHANGED <<reply, pipelineVars, handlerFrame>>

\* `return jsonify({'response': ai_response})`
SendReply(t) ==
    /\ handler[t].pc = "reply"
    /\ reply' = [status |-> 200, body |-> [response |-> <<handler[t].ai_response>>],
                 request |-> [route |-> "chat", is_json |-> TRUE,
                              message |-> handler[t].message,
                              session_id |-> handler[t].session_id]]
    /\ handler' = [handler EXCEPT ![t].pc = "done"]
    /\ UNCHANGED <<chat_histories, pipelineVars, handlerFrame>>

\* a request of the shared session handled while no thread is inside
\* chat_endpoint; at most MaxEarlierRequests of them
ChatAlone ==
    /\ \A t \in Threads : handler[t].pc \in {"idle", "done"}
    /\ LET h == SessionHistory(SharedSession)
       IN Cardinality({i \in DOMAIN h : h[i] = HistoryEntry("user", "support hours")})
            < MaxEarlierRequests
    /\ ChatEndpointOf({SharedSession}, {TRUE}, MaxLongHistory)

ChatStepNext ==
    \/ ChatAlone
    \/ \E t \in Threads :
        \/ Receive(t)
        \/ CheckSession(t)
        \/ CreateSession(t)
        \/ AppendUser(t)
        \/ AskPipeline(t)
        \/ AppendContext(t)
        \/ AppendAssistant(t)
        \/ SliceHistory(t)
        \/ AssignSlice(t)
        \/ SendReply(t)

ChatStepSpec == ServerInit /\ [][ChatStepNext]_vars

----------------------------------------------------------------------------
(* The loaders: load_knowledge.py and tools/load_knowledge.py, each run a   *)
(* process of its own on the persistent store                               *)

\* the keyword parameters get_rag_pipeline declares
GetRagPipelineKeywords(v) == IF v = "api" THEN {"persist_directory"} ELSE {}

\* the lines of a knowledge file: text, padded text, whitespace only
PaddedLine == "  opening times  "

FileLines == {"support hours", PaddedLine, BlankText}

\* str.strip() on the lines of the model
Strip(line) ==
    CASE line = PaddedLine -> "opening times"
      [] line = BlankText -> ""
      [] OTHER -> line

RECURSIVE StrippedLines(_)
\* [line.strip() for line in file if line.strip()]
StrippedLines(lines) ==
    IF Len(lines) = 0 THEN <<>>
    ELSE IF Strip(Head(lines)) = "" THEN StrippedLines(Tail(lines))
    ELSE <<Strip(Head(lines))>> \o StrippedLines(Tail(lines))

\* load_knowledge_from_file(filepath): the stripped non-empty lines, which are
\* also appended to KNOWLEDGE_DATA; [] when the file cannot be read
load_knowledge_from_file(lines, readable) ==
    IF readable THEN StrippedLines(lines) ELSE <<>>

\* the files given to tools/load_knowledge.py
KnowledgeFiles == SeqsUpTo(FileLines, MaxBatch)

\* await load_and_index(filepath): the items are read from the file, then
\* get_rag_pipeline(force_new=True) is called; get_rag_pipeline declares no
\* parameter force_new, so the call raises TypeError before any of its
\* statements runs and load_and_index is left by that exception
LoadAndIndex ==
    /\ "force_new" \notin GetRagPipelineKeywords(variant)
    /\ \E lines \in KnowledgeFiles, readable \in BOOLEAN :
         LET items == load_knowledge_from_file(lines, readable)
         IN /\ ~readable => lines = <<>>
            /\ last' = [NoCall EXCEPT !.op = "load_and_index",
                                      !.args = [lines |-> lines, readable |-> readable,
                                                items |-> items],
                                      !.exc = "TypeError"]
    /\ UNCHANGED <<variant, api_key, persist_directory, stepVars, chatVars,
                    exists, collection, instance, constructed, opened, pc, ret>>

LoaderNext == GetRagPipeline \/ LoadKnowledge \/ LoadAndIndex

LoaderSpec == Init /\ [][LoaderNext]_vars

----------------------------------------------------------------------------
(* Properties *)

FixedResponses(v) ==
    {NoInformationResponse(v), ApologyResponse(v), TechnicalDifficultiesResponse(v)}

\* C1: whatever the embedding call, the vector-store query and the generation
\* call do, query raises nothing and returns a dict holding a response string
\* and the documents and distances lists.
C1_QueryNeverRaises ==
    last.op = "query" =>
        /\ last.exc = "none"
        /\ {"response", "documents", "distances"} \subseteq DOMAIN last.value
        /\ last.value.response \in FixedResponses(variant) \cup {GeneratedText}
        /\ Len(last.value.documents) = Len(last.value.distances)

\* a query whose vector-store call failed has completed
C1_Witness ==
    /\ last.op = "query"
    /\ last.args.embedOk /\ ~last.args.storeOk
    /\ last.exc = "none"

\* C2: when the generation call was made and failed, query returns the
\* apology text together with exactly the documents and distances the store
\* returned, which are not empty.
C2_GenerationFailureKeepsPassages ==
    (/\ last.op = "query"
     /\ "generate_content" \in Range(last.calls)
     /\ ~last.args.genOk) =>
        /\ last.exc = "none"
        /\ last.value.response = ApologyResponse(variant)
        /\ Len(last.retrieved.documents) > 0
        /\ last.value.documents = last.retrieved.documents
        /\ last.value.distances = last.retrieved.distances

\* a query retrieved two documents and its generation call failed
C2_Witness ==
    /\ last.op = "query"
    /\ "generate_content" \in Range(last.calls)
    /\ ~last.args.genOk
    /\ Len(last.retrieved.documents) = 2

\* C3: whenever the store returned at least one document to a query, the
\* result of the query holds exactly those documents.
C3_RetrievedPassagesSurfaced ==
    (last.op = "query" /\ Len(last.retrieved.documents) > 0) =>
        /\ last.exc = "none"
        /\ last.value.documents = last.retrieved.documents

\* C4: when the embedding call of query fails, query returns the
\* technical-difficulties reply with empty lists and has called neither the
\* vector store nor the generation model.
C4_EmbeddingFailureFallback ==
    (last.op = "query" /\ ~last.args.embedOk) =>
        /\ last.exc = "none"
        /\ last.value.response = TechnicalDifficultiesResponse(variant)
        /\ last.value.documents = <<>>
        /\ last.value.distances = <<>>
        /\ last.calls = <<"embed_content:retrieval_query">>

\* a query whose embedding call failed has completed on a collection that holds documents
C4_Witness ==
    /\ last.op = "query"
    /\ ~last.args.embedOk
    /\ DOMAIN collection # {}

\* C5: when the vector-store query succeeds and returns no document, query
\* returns the no-information reply with empty lists, without a generation
\* call, without raising and without the technical-difficulties reply.
C5_EmptyRetrievalFallback ==
    (/\ last.op = "query"
     /\ last.args.embedOk /\ last.args.storeOk
     /\ Len(last.retrieved.documents) = 0) =>
        /\ last.exc = "none"
        /\ last.value.response = NoInformationResponse(variant)
        /\ last.value.response # TechnicalDifficultiesResponse(variant)
        /\ last.value.documents = <<>>
        /\ last.value.distances = <<>>
        /\ last.calls = <<"embed_content:retrieval_query", "collection.query">>

\* a query on an empty collection has completed, every external call succeeding
C5_Witness ==
    /\ last.op = "query"
    /\ last.args.embedOk /\ last.args.storeOk /\ last.args.genOk
    /\ DOMAIN collection = {}
    /\ Len(last.retrieved.documents) = 0

\* C6: an add_documents call in which an embedding call fails leaves the
\* collection exactly as it was before the call.
C6_AddDocumentsAtomic ==
    [][(last'.op = "add_documents" /\ last'.exc = "EmbeddingFailure") =>
            collection' = collection]_vars

\* an add_documents call failed at its second embedding call, the first having succeeded
C6_Witness ==
    /\ last.op = "add_documents"
    /\ last.exc = "EmbeddingFailure"
    /\ Len(last.calls) = 2

\* the list lengths of a call do not match: as stated, any metadatas list of another length
ShapeMismatch(shape) ==
    \/ shape.nDocs # shape.nIds
    \/ shape.nMetas # -1 /\ shape.nMetas # shape.nDocs

\* the list lengths of a call do not match, an empty metadatas list counting as absent
ShapeMismatchNonEmpty(shape) ==
    \/ shape.nDocs # shape.nIds
    \/ shape.nMetas > 0 /\ shape.nMetas # shape.nDocs

\* C7 as stated: add_documents with len(documents) # len(ids), or with a
\* metadatas list of another length than documents, fails with a validation
\* error before any embedding call and without changing the collection.
C7_ValidationBeforeEmbedding ==
    [][(last'.op = "add_documents" /\ ShapeMismatch(last'.args)) =>
            /\ last'.exc = "ValueError"
            /\ last'.calls = <<>>
            /\ collection' = collection]_vars

\* C7 amended: the same for len(documents) # len(ids) or a NON-EMPTY metadatas
\* list of another length than documents (an empty list is treated as no metadatas).
C7_ValidationBeforeEmbedding_NonEmpty ==
    [][(last'.op = "add_documents" /\ ShapeMismatchNonEmpty(last'.args)) =>
            /\ last'.exc = "ValueError"
            /\ last'.calls = <<>>
            /\ collection' = collection]_vars

\* add_documents was called with equally many documents and ids and a longer metadatas list
C7_Witness ==
    /\ last.op = "add_documents"
    /\ last.args.nDocs = 1 /\ last.args.nIds = 1 /\ last.args.nMetas = 2
    /\ last.exc = "ValueError"

\* C8: after add_documents was called (here by a run of the loader, every
\* embedding call succeeding) each id of the call is stored once, with the
\* text and the vector of that call, also when the id was stored before.
C8_ExistingIdOverwritten ==
    (last.op = "load_knowledge" /\ last.args.failAt = 0) =>
        \A i \in 1..Len(last.args.ids) :
            /\ last.args.ids[i] \in DOMAIN collection
            /\ collection[last.args.ids[i]].document = last.args.documents[i]
            /\ collection[last.args.ids[i]].embedding =
                   embed_content(last.args.documents[i], "retrieval_document", TRUE).value.embedding

\* C9: with concurrent first calls of get_rag_pipeline, one RAGPipeline is
\* constructed, the collection is opened (get-or-create) once, no call
\* raises, and all callers are returned the same instance.
C9_ColdStartConstructsOnce ==
    /\ constructed <= 1
    /\ opened <= 1
    /\ \A t \in Threads : pc[t] # "raised"
    /\ \A t, u \in Threads : (ret[t] # None /\ ret[u] # None) => ret[t] = ret[u]

\* C10: once the singleton is set, no call made after another unsets or
\* replaces it, constructs a RAGPipeline or opens the collection again, and
\* get_rag_pipeline returns that instance.
C10_SingletonStable ==
    [][instance # None =>
            /\ instance' = instance
            /\ constructed' = constructed
            /\ opened' = opened
            /\ (last'.op = "get_rag_pipeline" => last'.value = instance)]_vars

\* get_rag_pipeline was called with the singleton set and returned it
C10_Witness ==
    /\ last.op = "get_rag_pipeline"
    /\ last.args.cached
    /\ last.value = instance
    /\ constructed = 1


\* C11: a get_rag_pipeline(persist_directory=P) call that returns leaves the
\* caller with a pipeline whose vector store is opened at P, whether the
\* instance was constructed by this call or was cached.
C11_PipelineAtRequestedLocation ==
    (/\ last.op = "get_rag_pipeline"
     /\ last.exc = "none"
     /\ last.args.persist_directory # NoDirectory) =>
        persist_directory = last.args.persist_directory

\* C18: a get_rag_pipeline call made while GOOGLE_API_KEY is missing raises
\* the configuration error (ValueError), constructs no RAGPipeline, opens and
\* creates no collection, and leaves the singleton unset.
C18_MissingKeyRaises ==
    [][(last'.op = "get_rag_pipeline" /\ ~api_key) =>
            /\ last'.exc = "ValueError"
            /\ instance' = None
            /\ constructed' = constructed
            /\ opened' = opened
            /\ exists' = exists
            /\ collection' = collection]_vars

\* get_rag_pipeline raised for the missing credential, the collection being absent
C18_Witness ==
    /\ last.op = "get_rag_pipeline"
    /\ ~api_key
    /\ last.exc = "ValueError"
    /\ ~exists
    /\ instance = None


\* the sample documents as _init_with_sample_data stores them
SeededCollection == _init_with_sample_data(EmptyCollection, 0, "skip")

\* C12 as stated: no query operation (query, or query_rag with its lazy
\* construction of the pipeline) adds, changes or removes a document: the
\* stored documents after it are those before it.
C12_QueryLeavesDocuments ==
    [][last'.op \in {"query", "query_rag"} => collection' = collection]_vars

\* C12 amended: no query operation adds, changes or removes a document of a
\* collection that exists; when query_rag constructs the pipeline and the
\* collection is absent, the collection is created, empty or (src/api) holding
\* the sample documents of the seeding.
C12_QueryLeavesExistingDocuments ==
    [][last'.op \in {"query", "query_rag"} =>
            IF exists THEN collection' = collection
            ELSE collection' \in {EmptyCollection} \cup
                                 (IF variant = "api" THEN {SeededCollection} ELSE {})]_vars

\* query_rag constructed the pipeline on first use over an existing collection
\* that holds loaded documents, and retrieved some
C12_Witness ==
    /\ last.op = "query_rag"
    /\ ~last.args.cached
    /\ last.exc = "none"
    /\ Len(last.retrieved.documents) > 0
    /\ DOMAIN collection \cap Ids # {}


\* the external calls of an add_documents call that completes: one embedding
\* call per document, then the one write
CompleteAddCalls(n) == [k \in 1..n + 1 |-> IF k <= n THEN "embed_content:retrieval_document"
                                          ELSE "collection.add"]

\* C13: an exception raised inside add_documents (by the validation, an
\* embedding call or the vector-store write) leaves add_documents as that
\* exception; add_documents returns normally only when the lists matched and
\* every embedding call and the write were made and succeeded.
C13_FailuresReraised ==
    last.op = "add_documents" =>
        /\ last.exc = last.caught
        /\ last.exc = "none" =>
               /\ ~ShapeMismatchNonEmpty(last.args)
               /\ last.calls = CompleteAddCalls(last.args.nDocs)

\* the vector-store write of an add_documents call was rejected and the call raised
C13_Witness ==
    /\ last.op = "add_documents"
    /\ last.caught = "IDAlreadyExistsError"
    /\ last.exc # "none"
    /\ last.calls = CompleteAddCalls(last.args.nDocs)


\* the entry a call with batch b stores for the i-th id of the batch
EntryOfCall(b, i) ==
    [document |-> ConcurrentBatches[b].documents[i],
     embedding |-> embed_content(ConcurrentBatches[b].documents[i], "retrieval_document",
                                 TRUE).value.embedding,
     metadata |-> IF ConcurrentBatches[b].metadatas.isNone THEN NoneMeta
                  ELSE ConcurrentBatches[b].metadatas.list[i]]

\* C14: with concurrent add_documents calls on the same collection whose
\* batches share ids, every stored document of these ids has its text, its
\* vector and its metadata from one and the same call: the stored entry is
\* the entry one of the calls gave that id, never a mix of two calls.
C14_EntriesFromOneCall ==
    \A id \in DOMAIN collection \cap Ids :
        \E b \in 1..Len(ConcurrentBatches) :
            \E i \in 1..Len(ConcurrentBatches[b].ids) :
                /\ ConcurrentBatches[b].ids[i] = id
                /\ collection[id] = EntryOfCall(b, i)

\* two callers with different batches for the same ids were inside
\* add_documents together: one has written, the other is about to write
C14_Witness ==
    \E c, d \in Callers :
        /\ adder[c].pc = "done"
        /\ adder[d].pc = "write"
        /\ adder[c].batch # adder[d].batch
        /\ "doc_1_policy" \in DOMAIN collection


\* C15: a query call in progress can always go on towards its return: also
\* when the external call it waits for never responds, a step of query (the
\* timeout of that call) is possible.
C15_QueryNeverStuck ==
    inflight.pc = "waiting" => ENABLED QueryProgress


EmbedCalls == {EmbedCall("retrieval_document"), EmbedCall("retrieval_query")}

\* C16: every embedding call of an ingestion path (add_documents, the loader
\* run, the seeding of a created collection, the DOCUMENTS loop of the
\* persistent_add_docs script) is made in document mode, and every embedding
\* call that embeds a question (query, query_rag, the test query of the
\* script) is made in query mode.
C16_EmbeddingModes ==
    /\ \A i \in 1..Len(last.init_calls) :
          last.init_calls[i] \in EmbedCalls =>
              last.init_calls[i] = EmbedCall("retrieval_document")
    /\ last.op \in {"add_documents", "load_knowledge"} =>
          \A i \in 1..Len(last.calls) :
              last.calls[i] \in EmbedCalls => last.calls[i] = EmbedCall("retrieval_document")
    /\ last.op \in {"query", "query_rag"} =>
          /\ last.exc = "none" =>
                (Len(last.calls) > 0 /\ last.calls[1] = EmbedCall("retrieval_query"))
          /\ \A i \in 1..Len(last.calls) :
                last.calls[i] \in EmbedCalls => last.calls[i] = EmbedCall("retrieval_query")
    /\ last.op = "persistent_add_docs" =>
          \A i \in 1..Len(last.calls) :
              last.calls[i] \in EmbedCalls =>
                  last.calls[i] = IF i <= Len(DOCUMENTS) THEN EmbedCall("retrieval_document")
                                  ELSE EmbedCall("retrieval_query")

\* a run of the script embedded all of DOCUMENTS, wrote them and made its test query
C16_Witness ==
    /\ last.op = "persistent_add_docs"
    /\ Len(last.calls) = Len(DOCUMENTS) + 3
    /\ Len(last.retrieved.documents) = Len(DOCUMENTS)


\* C17: a query (or query_rag) whose question is whitespace only, and an
\* add_documents call with a whitespace-only document, fail with an error
\* before any call to the embedding service, the vector store or the
\* generation model is made.
C17_BlankTextRejected ==
    /\ (last.op \in {"query", "query_rag"} /\ last.args.query_text = BlankText) =>
          (last.exc # "none" /\ last.calls = <<>>)
    /\ (last.op = "add_documents" /\ last.args.blank) =>
          (last.exc # "none" /\ last.calls = <<>>)

\* C19: every chat request with a non-empty message is answered with a
\* non-empty 'response' text, and no part of the reply is the text of the
\* exception that was raised behind it
C19_ReplyAlwaysFriendly ==
    (reply.status # 0 /\ reply.request.is_json /\ reply.request.message # "") =>
        /\ "response" \in DOMAIN reply.body
        /\ Len(reply.body.response) > 0
        /\ \A i \in DOMAIN reply.body.response : reply.body.response[i] # ""
        /\ \A k \in DOMAIN reply.body :
             \A i \in DOMAIN reply.body[k] : reply.body[k][i] \notin ExceptionTexts

\* C20: the result of a query lists at most top_k passages, in non-decreasing
\* order of distance, with as many distances as documents
C20_PassagesBoundedAndOrdered ==
    (last.op \in {"query", "query_rag"} /\ last.exc = "none") =>
        LET documents == last.value.documents
            distances == last.value.distances
        IN /\ Len(documents) <= last.args.top_k
           /\ Len(documents) = Len(distances)
           /\ \A i \in 1..(Len(distances) - 1) : distances[i] <= distances[i + 1]

\* a query for two passages of a collection that holds more, answered with
\* two passages at different distances
C20_Witness ==
    /\ last.op = "query"
    /\ last.exc = "none"
    /\ last.args.top_k = 2
    /\ Cardinality(DOMAIN collection) > 2
    /\ Len(last.value.documents) = 2
    /\ last.value.distances[1] < last.value.distances[2]

\* the label the prompt is to give a passage: its metadata category, or the
\* generic default when the metadata has none
CategoryLabel(metadata) ==
    IF metadata # NoneMeta /\ "category" \in DOMAIN metadata THEN Upper(metadata.category)
    ELSE Upper("general information")

\* C21: the prompt of a query that retrieved passages holds the question on
\* one line and one entry per retrieved passage, in retrieval order, with the
\* passage's text and its category label
C21_PromptListsLabelledPassages ==
    (last.op = "query" /\ Len(last.retrieved.documents) > 0) =>
        LET documents == last.retrieved.documents
            metadatas == last.retrieved.metadatas
            prompt == BuildPrompt(variant, last.args.query_text, documents, metadatas)
        IN /\ prompt.exc = "none"
           /\ prompt.value.question = OneLine(last.args.query_text)
           /\ Len(prompt.value.passages) = Len(documents)
           /\ \A i \in 1..Len(documents) :
                /\ prompt.value.passages[i].text = documents[i]
                /\ prompt.value.passages[i].label = CategoryLabel(metadatas[i])

\* C22: constructing a RAGPipeline for a collection that exists opens that
\* collection and leaves its documents exactly as they were
C22_OpeningIsIdempotent ==
    [][(/\ exists
        /\ constructed' = constructed + 1
        /\ last'.op \in {"get_rag_pipeline", "query_rag"})
       => (exists' /\ collection' = collection)]_vars

\* a pipeline constructed by get_rag_pipeline on a collection that held documents
C22_Witness ==
    /\ last.op = "get_rag_pipeline"
    /\ ~last.args.cached
    /\ last.exc = "none"
    /\ variant = "api"
    /\ last.init_calls = <<>>
    /\ Cardinality(DOMAIN collection) > 0

\* C23: load_and_index returns with the pipeline initialized and every item
\* loaded from the file stored as a document of the collection
C23_LoadedItemsIndexed ==
    last.op = "load_and_index" =>
        /\ last.exc = "none"
        /\ instance # None
        /\ \A i \in 1..Len(last.args.items) :
             \E id \in DOMAIN collection : collection[id].document = last.args.items[i]

\* the collection holds exactly the three sample documents under sample_0..sample_2
HoldsSampleDocuments(coll) ==
    /\ DOMAIN coll = Range(sample_ids)
    /\ \A i \in 1..Len(sample_ids) : coll[sample_ids[i]].document = sample_docs[i]

\* C24: a construction succeeds; on an existing collection it adds nothing,
\* on an absent one it leaves all three sample documents or none
C24_SeedingAllOrNothing ==
    [][(constructed' = constructed + 1 /\ last'.op \in {"get_rag_pipeline", "query_rag"})
       => /\ last'.exc = "none"
          /\ instance' # None
          /\ exists => collection' = collection
          /\ ~exists => (collection' = EmptyCollection \/ HoldsSampleDocuments(collection'))]_vars

\* a construction that created the collection and whose second embedding call
\* failed: the pipeline is there, the collection is empty
C24_Witness ==
    /\ last.op = "get_rag_pipeline"
    /\ last.exc = "none"
    /\ instance # None
    /\ last.init_calls = <<EmbedCall(DocumentTaskType), EmbedCall(DocumentTaskType)>>
    /\ collection = EmptyCollection

\* the collection holds exactly DOCUMENTS, one entry per document, under `ids`
HoldsScriptDocuments(coll, ids) ==
    /\ DOMAIN coll = Range(ids)
    /\ \A i \in 1..Len(DOCUMENTS) : coll[ids[i]].document = DOCUMENTS[i]

\* C25 as stated: after a run of the rebuild script the collection is empty or
\* holds exactly DOCUMENTS under the ids doc_1..doc_n
C25_RebuildAllOrNothing_DocIds ==
    last.op = "persistent_add_docs" =>
        \/ collection = EmptyCollection
        \/ HoldsScriptDocuments(collection, doc_ids("cleaned"))

\* C25: after a run of the rebuild script the collection is empty or holds
\* exactly DOCUMENTS under the ids the script gives them (doc_1..doc_n in
\* src/deployment, csbp_1..csbp_n in src/api): no strict subset, nothing
\* that was stored before the run
C25_RebuildAllOrNothing ==
    last.op = "persistent_add_docs" =>
        \/ collection = EmptyCollection
        \/ HoldsScriptDocuments(collection, doc_ids(variant))

\* a run whose second embedding call failed, on a store a pipeline had been
\* constructed on: the collection is empty
C25_Witness ==
    /\ last.op = "persistent_add_docs"
    /\ last.args.failAt = 2
    /\ last.calls = <<EmbedCall(DocumentTaskType), EmbedCall(DocumentTaskType)>>
    /\ instance # None
    /\ collection = EmptyCollection

\* the embedding calls for the first k documents, in the order of the list
EmbeddingCallsInOrder(documents, k) ==
    [i \in 1..k |-> ExternalCall("embed_content", documents[i])]

\* C26: add_documents on n documents that returns has issued the n embedding
\* calls in the order of the list and then the one write; one left by a
\* failing embedding call has issued the embedding calls up to the failing
\* one, each once, and no write
C26_EmbedInOrderThenOneWrite ==
    \A c \in Callers :
        adder[c].pc \in {"done", "raised"} =>
            LET documents == ConcurrentBatches[adder[c].batch].documents
                n == Len(documents)
                calls == adder[c].calls
            IN /\ adder[c].pc = "done" =>
                    calls = EmbeddingCallsInOrder(documents, n) \o
                            <<ExternalCall("collection.add", "")>>
               /\ adder[c].exc = "EmbeddingFailure" =>
                    /\ Len(calls) = Len(adder[c].embeddings) + 1
                    /\ Len(calls) <= n
                    /\ calls = EmbeddingCallsInOrder(documents, Len(calls))

\* a call on two documents has returned, and another was left by its second
\* embedding call failing
C26_Witness ==
    \E c, d \in Callers :
        /\ adder[c].pc = "done"
        /\ Len(adder[c].calls) = 3
        /\ adder[d].pc = "raised"
        /\ adder[d].exc = "EmbeddingFailure"
        /\ Len(adder[d].calls) = 2

\* C27: in the deployment server the history of the session of a chat
\* request that was answered has at most 20 entries
C27_HistoryAtMostTwenty ==
    (/\ variant = "cleaned"
     /\ reply.request.route = "chat"
     /\ reply.request.session_id \in DOMAIN chat_histories) =>
        Len(chat_histories[reply.request.session_id]) <= HistoryLimit

\* a chat request of the deployment server was answered after its session's
\* history had been cut to 20 entries
C27_Witness ==
    /\ variant = "cleaned"
    /\ reply.request.route = "chat"
    /\ reply.status = 200
    /\ Len(chat_histories[reply.request.session_id]) = HistoryLimit
    /\ chat_histories[reply.request.session_id][1].role = "user"

\* C28: the first entry of the history of every session is the system-prompt
\* entry the session was created with
C28_FirstEntryIsSystemPrompt ==
    \A s \in DOMAIN chat_histories :
        chat_histories[s][1] = HistoryEntry("system", SystemPrompt(variant))

\* C29: clear_session leaves a known session with the system-prompt entry
\* alone and every other session as it was; for an unknown session id, or
\* without one, no history changes and no session appears
C29_ClearSessionFrame ==
    [][reply'.request.route = "clear-session" =>
         IF reply'.request.is_json /\ reply'.request.session_id \in DOMAIN chat_histories
         THEN /\ DOMAIN chat_histories' = DOMAIN chat_histories
              /\ \A s \in DOMAIN chat_histories :
                   chat_histories'[s] =
                     IF s = reply'.request.session_id
                     THEN <<HistoryEntry("system", SystemPrompt(variant))>>
                     ELSE chat_histories[s]
         ELSE chat_histories' = chat_histories]_vars

\* a session was cleared while another session holds a conversation
C29_Witness ==
    /\ reply.request.route = "clear-session"
    /\ reply.status = 200
    /\ reply.body.message = <<"Session cleared">>
    /\ Len(chat_histories[reply.request.session_id]) = 1
    /\ \E s \in DOMAIN chat_histories : Len(chat_histories[s]) > 1

\* C30: when the concurrent requests of one session have all been answered,
\* the history of the session holds the user message of each of them, each
\* followed by an assistant response, and at least as many assistant
\* responses after the first of these messages as there were requests
C30_ConcurrentRequestsKeepEntries ==
    (\A t \in Threads : handler[t].pc = "done") =>
        LET h == chat_histories[SharedSession]
            asked(t) == {i \in DOMAIN h : h[i] = HistoryEntry("user", handler[t].message)}
            answers(i) == {j \in DOMAIN h : j > i /\ h[j].role = "assistant"}
        IN /\ \A t \in Threads : \E i \in asked(t) : answers(i) # {}
           /\ \E t \in Threads : \E i \in asked(t) : Cardinality(answers(i)) >= NumThreads

====
